---- MODULE Spec2Model ----
(***************************************************************************)
(* A model of the tenant scheduler (src/src/group-queue.ts, class          *)
(* GroupQueue) and of the control-plane IPC watcher (ipc.ts, kept as       *)
(* src/unnamed/part_001).                                                  *)
(*                                                                         *)
(* The scheduler is single threaded: every public method and every         *)
(* continuation of an awaited run executes to completion before the next   *)
(* one starts, so each of them is one action.  A run that has been started *)
(* and whose awaited promise has not settled yet is an element of          *)
(* `running`; a retry callback handed to setTimeout and not yet called is  *)
(* an element of `timers`.                                                 *)
(***************************************************************************)
EXTENDS Integers, Sequences, FiniteSets, Bags, TLC

(***************************************************************************)
(* Program constants                                                       *)
(***************************************************************************)
MAX_RETRIES == 5
BASE_RETRY_MS == 5000
\* config.ts is not part of the sources; the cap is a deployment setting.
MAX_CONCURRENT_CONTAINERS == 2

(***************************************************************************)
(* Bounds of the model                                                     *)
(***************************************************************************)
\* enqueueMessageCheck and enqueueTask calls made from outside, in all
MaxCalls == 3
\* the same, where four tenants compete for the slots
MaxWaitingCalls == 5
\* enqueueTask calls where message checks arrive without end
MaxLiveCalls == 1
\* the same, where the sandbox side (registerProcess, notifyIdle, sendMessage,
\* closeStdin) is explored as well
MaxSandboxCalls == 2
\* tenants that are in a retry sequence (retryCount > 0) at the same time
MaxBackoff == 1
\* sendMessage is called while every input directory holds fewer files
MaxFiles == 1
\* calls of startIpcWatcher the host makes
MaxStartCalls == 2

Null == "null"

\* chat addresses handed to the public methods
Jids == {"a1", "a2", "b1", "c1"}
TaskIds == {"t1", "t2"}
Texts == {"hello", ""}
\* the optional attachments argument: {} is `undefined`, {<<>>} is [],
\* {<<x>>} is a one-element array
Attachment == [containerPath |-> "/workspace/ipc/attachments/x.png", contentType |-> "image/png"]
AttachmentArgs == {{}, {<<>>}, {<<Attachment>>}}

\* The resolver handed to the constructor.  "a1" and "a2" are two chats of one
\* workspace; for "c1" it yields nothing and the address itself is the key.
resolveFolder(jid) ==
    CASE jid \in {"a1", "a2"} -> "wa"
      [] jid = "b1" -> "wb"
      [] OTHER -> Null

resolveKey(jid) ==
    IF resolveFolder(jid) # Null THEN resolveFolder(jid) ELSE jid

\* the chats of the four tenants that compete for the slots where the waiting
\* list is looked at
WaitingJids == {"a1", "b1", "c1", "d1"}

Keys == {resolveKey(j) : j \in Jids \cup WaitingJids}

\* the workspace a caller of registerProcess passes for a chat (group.folder)
folderOf(jid) == IF jid = "c1" THEN "wc" ELSE resolveKey(jid)
Workspaces == {folderOf(j) : j \in Jids}

\* a ChildProcess handle: live, or with its `killed` flag set
ProcLive == "proc"
ProcKilled == "proc(killed)"
containerNameOf(jid) == IF jid = "c1" THEN "nanoclaw-wc" ELSE IF jid = "b1" THEN "nanoclaw-wb" ELSE "nanoclaw-wa"

VARIABLES
    groups,            \* Map<string, GroupState>, absent keys read as the default
    activeCount,
    waitingGroups,
    processMessagesFn, \* Null or "fn"
    shuttingDown,
    running,           \* bag of runs whose awaited promise is pending
    timers,            \* bag of pending retry callbacks [jid, delayMs]
    inputDir,          \* DATA_DIR/ipc/<workspace>/input
    callsLeft,         \* enqueue calls the environment may still make
    streak,            \* history: consecutive failed message runs per key
    abandoned,         \* history: see MessageRunSettles
    last               \* history: the handler that ran last and what it did

queueVars == <<groups, activeCount, waitingGroups, processMessagesFn, shuttingDown,
               running, timers, inputDir, callsLeft, streak, abandoned, last>>

\* the state of the IPC watcher (ipc.ts) and of what it acts on
VARIABLES
    ipcWatcherRunning, \* module flag of ipc.ts
    pollLoops,         \* history: the chains of processIpcFiles that were started
    startCalls,        \* history: the calls of startIpcWatcher made
    poll,              \* where the poll pass stands: its phase, the workspaces and
                       \* the files it listed and has not handled yet
    ipcDirs,           \* data/ipc/<workspace>/{messages,tasks}: the files there
    errorsDir,         \* data/ipc/errors: the names of the files moved there
    registeredGroups,  \* deps.registeredGroups(): chat address -> workspace or Null
    tasks,             \* the task store behind createTask/getTaskById/...
    sent,              \* the delivery calls made on deps, in order
    ipcLog,            \* the logger's lines, in order
    taskSeq,           \* stands for the fresh part of a generated task id
    writesLeft,        \* files the sandboxes may still drop
    lastIpc            \* the file handled last and what handling it did

ipcVars == <<ipcWatcherRunning, pollLoops, startCalls, poll, ipcDirs, errorsDir, registeredGroups, tasks,
             sent, ipcLog, taskSeq, writesLeft, lastIpc>>

VARIABLES
    storedMessages,     \* the messages in the store, oldest first; a message's
                        \* timestamp is its place in the sequence
    lastTimestamp,      \* the timestamp up to which the message loop has seen
    lastAgentTimestamp, \* chat address -> the processed-message cursor; 0 is ''
    agentRuns,          \* chat address -> the locals of processGroupMessages
    lastRun,            \* the call of processGroupMessages that returned last
    handed              \* history: chat address -> the messages the last step
                        \* put into a prompt or a follow-up input, or skipped

runVars == <<storedMessages, lastTimestamp, lastAgentTimestamp, agentRuns, lastRun,
             handed>>

VARIABLES
    container,          \* the sandbox run: where it stands and what it has seen
    onOutputCalls,      \* the payloads forwarded to onOutput, in order
    runOutcomes         \* the outcomes runContainerAgent has resolved to

containerVars == <<container, onOutputCalls, runOutcomes>>

VARIABLES
    allowlistFile,      \* what lies at MOUNT_ALLOWLIST_PATH
    cachedAllowlist,    \* the allowlist as loaded, once it has been
    mountCall           \* the last call of validateMount and its decision

mountVars == <<allowlistFile, cachedAllowlist, mountCall>>

VARIABLES
    workspaceName,      \* the name a workspace path is asked for
    resolution          \* the outcome of the path resolution, once made

pathVars == <<workspaceName, resolution>>

VARIABLES
    apiRequests,        \* request -> where its handler stands, its responsePromise
                        \* and whether its timer is pending
    responseListeners,  \* the listeners of `response:<jid>`, as registered
    apiReplies,         \* request -> the replies written to it, in order
    heard,              \* history: request -> the responses emitted while it waited
    emitted             \* history: the responses emitted

apiVars == <<apiRequests, responseListeners, apiReplies, heard, emitted>>

hostVars == <<runVars, containerVars, mountVars, pathVars, apiVars>>

vars == <<queueVars, ipcVars, hostVars>>

InitialGroupState ==
    [active |-> FALSE, idleWaiting |-> FALSE, isTaskContainer |-> FALSE,
     pendingMessages |-> FALSE, pendingTasks |-> <<>>, process |-> Null,
     containerName |-> Null, workspace |-> Null, lastTriggerJid |-> Null,
     retryCount |-> 0]

RECURSIVE Pow2(_)
Pow2(n) == IF n <= 0 THEN 1 ELSE 2 * Pow2(n - 1)

\* The scheduler fields a handler reads and writes, as one record.
Q == [groups |-> groups, activeCount |-> activeCount, waitingGroups |-> waitingGroups,
      running |-> running, timers |-> timers, inputDir |-> inputDir,
      started |-> <<>>, scheduled |-> <<>>, taken |-> <<>>, closed |-> <<>>]

One(x) == SetToBag({x})

Includes(seq, x) == \E i \in 1..Len(seq) : seq[i] = x

(***************************************************************************)
(* GroupQueue: the private methods, as functions of the scheduler fields   *)
(***************************************************************************)

\* closeStdinByKey (group-queue.ts 202-213): the `_close` sentinel
closeStdinByKey(q, key) ==
    LET state == q.groups[key] IN
    IF ~state.active \/ state.workspace = Null THEN q
    ELSE [q EXCEPT !.inputDir[state.workspace].close = TRUE,
                   !.closed = Append(@, key)]

\* scheduleRetry with a delay that grows linearly with the attempt
scheduleRetry_LinearBackoff(q, key) ==
    LET retryCount == q.groups[key].retryCount + 1 IN
    IF retryCount > MAX_RETRIES
    THEN [q EXCEPT !.groups[key].retryCount = 0]
    ELSE LET state == q.groups[key]
             jid == IF state.lastTriggerJid # Null THEN state.lastTriggerJid ELSE key
             delayMs == BASE_RETRY_MS * retryCount
             timer == [jid |-> jid, delayMs |-> delayMs]
         IN [q EXCEPT !.groups[key].retryCount = retryCount,
                      !.timers = @ (+) One(timer),
                      !.scheduled = Append(@, timer)]

\* scheduleRetry without the return that ends the abandoned attempt (289)
scheduleRetry_NoReturn(q, key) ==
    LET retryCount == q.groups[key].retryCount + 1
        kept == IF retryCount > MAX_RETRIES THEN 0 ELSE retryCount
        state == q.groups[key]
        jid == IF state.lastTriggerJid # Null THEN state.lastTriggerJid ELSE key
        delayMs == BASE_RETRY_MS * Pow2(kept - 1)
        timer == [jid |-> jid, delayMs |-> delayMs]
    IN [q EXCEPT !.groups[key].retryCount = kept,
                 !.timers = @ (+) One(timer),
                 !.scheduled = Append(@, timer)]

\* scheduleRetry (281-303)
scheduleRetry(q, key) ==
    LET retryCount == q.groups[key].retryCount + 1 IN
    IF retryCount > MAX_RETRIES
    THEN [q EXCEPT !.groups[key].retryCount = 0]
    ELSE LET state == q.groups[key]
             jid == IF state.lastTriggerJid # Null THEN state.lastTriggerJid ELSE key
             delayMs == BASE_RETRY_MS * Pow2(retryCount - 1)
             timer == [jid |-> jid, delayMs |-> delayMs]
         IN [q EXCEPT !.groups[key].retryCount = retryCount,
                      !.timers = @ (+) One(timer),
                      !.scheduled = Append(@, timer)]

\* what a handler records of a run it starts
StartOf(q, key, kind, id, from) ==
    [key |-> key, kind |-> kind, id |-> id, from |-> from,
     pending |-> Len(q.groups[key].pendingTasks),
     wasActive |-> q.groups[key].active]

\* the state changes of runForGroup before its await (219-230)
beginRunForGroup(q, key, reason) ==
    [q EXCEPT !.groups[key].active = TRUE,
              !.groups[key].idleWaiting = FALSE,
              !.groups[key].isTaskContainer = FALSE,
              !.groups[key].pendingMessages = FALSE,
              !.activeCount = @ + 1,
              !.started = Append(@, StartOf(q, key, "messages", Null, reason))]

\* the state changes of runTask before its await (255-264)
beginRunTask(q, key, task, from) ==
    [q EXCEPT !.groups[key].active = TRUE,
              !.groups[key].idleWaiting = FALSE,
              !.groups[key].isTaskContainer = TRUE,
              !.activeCount = @ + 1,
              !.started = Append(@, StartOf(q, key, "task", task.id, from))]

\* the finally block of runForGroup without the release of the slot (249)
endRunForGroup_KeepsSlot(q, key) ==
    [q EXCEPT !.groups[key].active = FALSE,
              !.groups[key].process = Null,
              !.groups[key].containerName = Null,
              !.groups[key].workspace = Null]

\* the finally block of runForGroup, up to the drain (245-249)
endRunForGroup(q, key) ==
    [q EXCEPT !.groups[key].active = FALSE,
              !.groups[key].process = Null,
              !.groups[key].containerName = Null,
              !.groups[key].workspace = Null,
              !.activeCount = @ - 1]

\* the finally block of runTask, up to the drain (271-276)
endRunTask(q, key) ==
    [q EXCEPT !.groups[key].active = FALSE,
              !.groups[key].isTaskContainer = FALSE,
              !.groups[key].process = Null,
              !.groups[key].containerName = Null,
              !.groups[key].workspace = Null,
              !.activeCount = @ - 1]

RunOf(key, kind, jid, id) == [key |-> key, kind |-> kind, jid |-> jid, id |-> id]

RECURSIVE runForGroup(_, _, _), runTask(_, _, _, _), drainGroup(_, _), drainWaiting(_)

\* runForGroup (215-252).  With a message function the run is left awaiting
\* it; without one the body has no await and runs through its finally block.
runForGroup(q, key, reason) ==
    LET state == q.groups[key]
        jid == IF state.lastTriggerJid # Null THEN state.lastTriggerJid ELSE key
        q1 == beginRunForGroup(q, key, reason)
    IN IF processMessagesFn # Null
       THEN [q1 EXCEPT !.running = @ (+) One(RunOf(key, "messages", jid, Null))]
       ELSE drainGroup(endRunForGroup(q1, key), key)

\* runTask (254-279), up to the await of task.fn()
runTask(q, key, task, from) ==
    LET q1 == beginRunTask(q, key, task, from)
    IN [q1 EXCEPT !.running = @ (+) One(RunOf(key, "task", task.groupJid, task.id))]

\* drainGroup without the test of shuttingDown (306)
drainGroup_NoShutdownTest(q, key) ==
    LET state == q.groups[key] IN
    IF Len(state.pendingTasks) > 0
    THEN runTask([q EXCEPT !.groups[key].pendingTasks = Tail(@)],
                 key, Head(state.pendingTasks), "drain")
    ELSE IF state.pendingMessages
    THEN runForGroup(q, key, "drain")
    ELSE drainWaiting(q)

\* drainGroup taking the pending message check before the pending tasks
drainGroup_MessagesFirst(q, key) ==
    IF shuttingDown THEN q
    ELSE LET state == q.groups[key] IN
         IF state.pendingMessages
         THEN runForGroup(q, key, "drain")
         ELSE IF Len(state.pendingTasks) > 0
         THEN runTask([q EXCEPT !.groups[key].pendingTasks = Tail(@)],
                      key, Head(state.pendingTasks), "drain")
         ELSE drainWaiting(q)

\* drainGroup running the first queued task without taking it from the list
drainGroup_KeepsTaskQueued(q, key) ==
    IF shuttingDown THEN q
    ELSE LET state == q.groups[key] IN
         IF Len(state.pendingTasks) > 0
         THEN runTask(q, key, Head(state.pendingTasks), "drain")
         ELSE IF state.pendingMessages
         THEN runForGroup(q, key, "drain")
         ELSE drainWaiting(q)

\* drainGroup running the task that was queued last
drainGroup_NewestTaskFirst(q, key) ==
    IF shuttingDown THEN q
    ELSE LET state == q.groups[key] IN
         IF Len(state.pendingTasks) > 0
         THEN runTask([q EXCEPT !.groups[key].pendingTasks = SubSeq(@, 1, Len(@) - 1)],
                      key, state.pendingTasks[Len(state.pendingTasks)], "drain")
         ELSE IF state.pendingMessages
         THEN runForGroup(q, key, "drain")
         ELSE drainWaiting(q)

\* drainGroup (305-329)
drainGroup(q, key) ==
    IF shuttingDown THEN q
    ELSE LET state == q.groups[key] IN
         IF Len(state.pendingTasks) > 0
         THEN runTask([q EXCEPT !.groups[key].pendingTasks = Tail(@)],
                      key, Head(state.pendingTasks), "drain")
         ELSE IF state.pendingMessages
         THEN runForGroup(q, key, "drain")
         ELSE drainWaiting(q)

\* drainWaiting taking the tenant that was appended last
drainWaiting_TakesLast(q) ==
    IF Len(q.waitingGroups) > 0 /\ q.activeCount < MAX_CONCURRENT_CONTAINERS
    THEN LET nextKey == q.waitingGroups[Len(q.waitingGroups)]
             q1 == [q EXCEPT !.waitingGroups = SubSeq(@, 1, Len(@) - 1),
                             !.taken = Append(@, nextKey)]
             state == q1.groups[nextKey]
         IN IF Len(state.pendingTasks) > 0
            THEN drainWaiting(runTask([q1 EXCEPT !.groups[nextKey].pendingTasks = Tail(@)],
                                      nextKey, Head(state.pendingTasks), "waiting"))
            ELSE IF state.pendingMessages
            THEN drainWaiting(runForGroup(q1, nextKey, "waiting"))
            ELSE drainWaiting(q1)
    ELSE q

\* drainWaiting (331-352)
drainWaiting(q) ==
    IF Len(q.waitingGroups) > 0 /\ q.activeCount < MAX_CONCURRENT_CONTAINERS
    THEN LET nextKey == Head(q.waitingGroups)
             q1 == [q EXCEPT !.waitingGroups = Tail(@),
                             !.taken = Append(@, nextKey)]
             state == q1.groups[nextKey]
         IN IF Len(state.pendingTasks) > 0
            THEN drainWaiting(runTask([q1 EXCEPT !.groups[nextKey].pendingTasks = Tail(@)],
                                      nextKey, Head(state.pendingTasks), "waiting"))
            ELSE IF state.pendingMessages
            THEN drainWaiting(runForGroup(q1, nextKey, "waiting"))
            ELSE drainWaiting(q1)
    ELSE q

\* enqueueMessageCheck with the test of state.active (79-83) left out
enqueueMessageCheck_NoActiveTest(q, groupJid) ==
    LET key == resolveKey(groupJid)
        q1 == [q EXCEPT !.groups[key].lastTriggerJid = groupJid]
    IN IF shuttingDown THEN q
       ELSE IF q1.activeCount >= MAX_CONCURRENT_CONTAINERS
       THEN [q1 EXCEPT !.groups[key].pendingMessages = TRUE,
                       !.waitingGroups = IF Includes(@, key) THEN @ ELSE Append(@, key)]
       ELSE runForGroup(q1, key, "messages")

\* enqueueMessageCheck deferring the tenant while one slot is still free (85)
enqueueMessageCheck_CapOffByOne(q, groupJid) ==
    LET key == resolveKey(groupJid)
        q1 == [q EXCEPT !.groups[key].lastTriggerJid = groupJid]
        state == q1.groups[key]
    IN IF shuttingDown THEN q
       ELSE IF state.active
       THEN [q1 EXCEPT !.groups[key].pendingMessages = TRUE]
       ELSE IF q1.activeCount + 1 >= MAX_CONCURRENT_CONTAINERS
       THEN [q1 EXCEPT !.groups[key].pendingMessages = TRUE,
                       !.waitingGroups = IF Includes(@, key) THEN @ ELSE Append(@, key)]
       ELSE runForGroup(q1, key, "messages")

\* enqueueMessageCheck marking the tenant at the cap without appending it to
\* the waiting list (87-89)
enqueueMessageCheck_NoWaitingPush(q, groupJid) ==
    LET key == resolveKey(groupJid)
        q1 == [q EXCEPT !.groups[key].lastTriggerJid = groupJid]
        state == q1.groups[key]
    IN IF shuttingDown THEN q
       ELSE IF state.active
       THEN [q1 EXCEPT !.groups[key].pendingMessages = TRUE]
       ELSE IF q1.activeCount >= MAX_CONCURRENT_CONTAINERS
       THEN [q1 EXCEPT !.groups[key].pendingMessages = TRUE]
       ELSE runForGroup(q1, key, "messages")

\* enqueueMessageCheck that does not note a check arriving during a run (80)
enqueueMessageCheck_ForgetsCheckDuringRun(q, groupJid) ==
    LET key == resolveKey(groupJid)
        q1 == [q EXCEPT !.groups[key].lastTriggerJid = groupJid]
        state == q1.groups[key]
    IN IF shuttingDown THEN q
       ELSE IF state.active
       THEN q1
       ELSE IF q1.activeCount >= MAX_CONCURRENT_CONTAINERS
       THEN [q1 EXCEPT !.groups[key].pendingMessages = TRUE,
                       !.waitingGroups = IF Includes(@, key) THEN @ ELSE Append(@, key)]
       ELSE runForGroup(q1, key, "messages")

\* enqueueMessageCheck (72-100)
enqueueMessageCheck(q, groupJid) ==
    LET key == resolveKey(groupJid)
        q1 == [q EXCEPT !.groups[key].lastTriggerJid = groupJid]
        state == q1.groups[key]
    IN IF shuttingDown THEN q
       ELSE IF state.active
       THEN [q1 EXCEPT !.groups[key].pendingMessages = TRUE]
       ELSE IF q1.activeCount >= MAX_CONCURRENT_CONTAINERS
       THEN [q1 EXCEPT !.groups[key].pendingMessages = TRUE,
                       !.waitingGroups = IF Includes(@, key) THEN @ ELSE Append(@, key)]
       ELSE runForGroup(q1, key, "messages")

\* enqueueTask with the cap compared by > where the code has >= (123)
enqueueTask_CapOffByOne(q, groupJid, taskId) ==
    LET key == resolveKey(groupJid)
        state == q.groups[key]
        task == [id |-> taskId, groupJid |-> groupJid]
    IN IF shuttingDown THEN q
       ELSE IF \E i \in 1..Len(state.pendingTasks) : state.pendingTasks[i].id = taskId
       THEN q
       ELSE IF state.active
       THEN LET q1 == [q EXCEPT !.groups[key].pendingTasks = Append(@, task)]
            IN IF state.idleWaiting THEN closeStdinByKey(q1, key) ELSE q1
       ELSE IF q.activeCount > MAX_CONCURRENT_CONTAINERS
       THEN [q EXCEPT !.groups[key].pendingTasks = Append(@, task),
                      !.waitingGroups = IF Includes(@, key) THEN @ ELSE Append(@, key)]
       ELSE runTask(q, key, task, "enqueue")

\* enqueueTask appending the tenant to the waiting list without looking for it
\* there (125)
enqueueTask_NoWaitingTest(q, groupJid, taskId) ==
    LET key == resolveKey(groupJid)
        state == q.groups[key]
        task == [id |-> taskId, groupJid |-> groupJid]
    IN IF shuttingDown THEN q
       ELSE IF \E i \in 1..Len(state.pendingTasks) : state.pendingTasks[i].id = taskId
       THEN q
       ELSE IF state.active
       THEN LET q1 == [q EXCEPT !.groups[key].pendingTasks = Append(@, task)]
            IN IF state.idleWaiting THEN closeStdinByKey(q1, key) ELSE q1
       ELSE IF q.activeCount >= MAX_CONCURRENT_CONTAINERS
       THEN [q EXCEPT !.groups[key].pendingTasks = Append(@, task),
                      !.waitingGroups = Append(@, key)]
       ELSE runTask(q, key, task, "enqueue")

\* enqueueTask without the test for a task of the same id (109-112)
enqueueTask_NoDuplicateTest(q, groupJid, taskId) ==
    LET key == resolveKey(groupJid)
        state == q.groups[key]
        task == [id |-> taskId, groupJid |-> groupJid]
    IN IF shuttingDown THEN q
       ELSE IF state.active
       THEN LET q1 == [q EXCEPT !.groups[key].pendingTasks = Append(@, task)]
            IN IF state.idleWaiting THEN closeStdinByKey(q1, key) ELSE q1
       ELSE IF q.activeCount >= MAX_CONCURRENT_CONTAINERS
       THEN [q EXCEPT !.groups[key].pendingTasks = Append(@, task),
                      !.waitingGroups = IF Includes(@, key) THEN @ ELSE Append(@, key)]
       ELSE runTask(q, key, task, "enqueue")

\* enqueueTask (102-139)
enqueueTask(q, groupJid, taskId) ==
    LET key == resolveKey(groupJid)
        state == q.groups[key]
        task == [id |-> taskId, groupJid |-> groupJid]
    IN IF shuttingDown THEN q
       ELSE IF \E i \in 1..Len(state.pendingTasks) : state.pendingTasks[i].id = taskId
       THEN q
       ELSE IF state.active
       THEN LET q1 == [q EXCEPT !.groups[key].pendingTasks = Append(@, task)]
            IN IF state.idleWaiting THEN closeStdinByKey(q1, key) ELSE q1
       ELSE IF q.activeCount >= MAX_CONCURRENT_CONTAINERS
       THEN [q EXCEPT !.groups[key].pendingTasks = Append(@, task),
                      !.waitingGroups = IF Includes(@, key) THEN @ ELSE Append(@, key)]
       ELSE runTask(q, key, task, "enqueue")

(***************************************************************************)
(* Actions: one per public method, settled run and fired timer             *)
(***************************************************************************)

\* what `last` keeps of a handler: its name, its argument, what it returned,
\* and what it did in order (runs started, retries scheduled, keys taken from
\* the waiting list, close sentinels written, sandboxes reported detached)
Did(op, arg, ret, q, detached) ==
    [op |-> op, arg |-> arg, ret |-> ret, started |-> q.started,
     scheduled |-> q.scheduled, taken |-> q.taken, closed |-> q.closed,
     detached |-> detached]

Commit(q) ==
    /\ groups' = q.groups
    /\ activeCount' = q.activeCount
    /\ waitingGroups' = q.waitingGroups
    /\ running' = q.running
    /\ timers' = q.timers
    /\ inputDir' = q.inputDir

\* the retry callbacks outstanding for a key
TimersOf(bag, key) == {t \in BagToSet(bag) : resolveKey(t.jid) = key}

\* the runs in flight for a key
RunsOf(bag, key) ==
    LET own == {r \in BagToSet(bag) : r.key = key}
    IN BagCardinality([r \in own |-> bag[r]])

EnqueueMessageCheck(groupJid) ==
    /\ callsLeft > 0
    /\ callsLeft' = callsLeft - 1
    /\ LET q == enqueueMessageCheck(Q, groupJid)
       IN /\ Commit(q)
          /\ UNCHANGED <<ipcVars, hostVars>>
          /\ last' = Did("enqueueMessageCheck", groupJid, "void", q, {})
    /\ abandoned' = [abandoned EXCEPT ![resolveKey(groupJid)] = "no"]
    /\ UNCHANGED <<processMessagesFn, shuttingDown, streak>>

EnqueueTask(groupJid, taskId) ==
    /\ callsLeft > 0
    /\ callsLeft' = callsLeft - 1
    /\ LET q == enqueueTask(Q, groupJid, taskId)
       IN /\ Commit(q)
          /\ UNCHANGED <<ipcVars, hostVars>>
          /\ last' = Did("enqueueTask", groupJid, "void", q, {})
    /\ abandoned' = [abandoned EXCEPT ![resolveKey(groupJid)] = "no"]
    /\ UNCHANGED <<processMessagesFn, shuttingDown, streak>>

\* the message loop's call of enqueueMessageCheck for a chat with new messages
\* (part_003 404); the loop polls for as long as the host runs, so these calls
\* are not counted
MessageLoopEnqueues(groupJid) ==
    /\ LET q == enqueueMessageCheck(Q, groupJid)
       IN /\ Commit(q)
          /\ UNCHANGED <<ipcVars, hostVars>>
          /\ last' = Did("enqueueMessageCheck", groupJid, "void", q, {})
    /\ abandoned' = [abandoned EXCEPT ![resolveKey(groupJid)] = "no"]
    /\ UNCHANGED <<processMessagesFn, shuttingDown, callsLeft, streak>>

\* setProcessMessagesFn (68-70)
SetProcessMessagesFn ==
    /\ processMessagesFn = Null
    /\ processMessagesFn' = "fn"
    /\ UNCHANGED <<ipcVars, hostVars>>
    /\ last' = Did("setProcessMessagesFn", Null, "void", Q, {})
    /\ UNCHANGED <<groups, activeCount, waitingGroups, shuttingDown, running, timers,
                   inputDir, callsLeft, streak, abandoned>>

\* registerProcess (141-147)
registerProcess(q, groupJid, proc, containerName, workspace) ==
    LET key == resolveKey(groupJid) IN
    [q EXCEPT !.groups[key].process = proc,
              !.groups[key].containerName = containerName,
              !.groups[key].workspace = IF workspace # Null THEN workspace ELSE @]

\* The sandbox runner calls it once the process of a run has been spawned
\* (part_003 293, 541), so a run of the tenant is in flight.
RegisterProcess(groupJid, workspace) ==
    /\ RunsOf(running, resolveKey(groupJid)) > 0
    /\ LET q == registerProcess(Q, groupJid, ProcLive, containerNameOf(groupJid), workspace)
       IN /\ Commit(q)
          /\ UNCHANGED <<ipcVars, hostVars>>
          /\ last' = Did("registerProcess", groupJid, "void", q, {})
    /\ UNCHANGED <<processMessagesFn, shuttingDown, callsLeft, streak, abandoned>>

\* The sandbox runner's hard stop of a process it spawned (outside the
\* scheduler): the handle's `killed` flag becomes true.
ProcessKilled(key) ==
    /\ groups[key].process = ProcLive
    /\ groups' = [groups EXCEPT ![key].process = ProcKilled]
    /\ UNCHANGED <<ipcVars, hostVars>>
    /\ last' = Did("processKilled", key, "void", Q, {})
    /\ UNCHANGED <<activeCount, waitingGroups, processMessagesFn, shuttingDown, running,
                   timers, inputDir, callsLeft, streak, abandoned>>

\* notifyIdle that only records the idle report
notifyIdle_NoPreemption(q, groupJid) ==
    [q EXCEPT !.groups[resolveKey(groupJid)].idleWaiting = TRUE]

\* notifyIdle (153-160)
notifyIdle(q, groupJid) ==
    LET key == resolveKey(groupJid)
        q1 == [q EXCEPT !.groups[key].idleWaiting = TRUE]
    IN IF Len(q1.groups[key].pendingTasks) > 0 THEN closeStdinByKey(q1, key) ELSE q1

\* The sandbox of a run reports that it waits for input.
NotifyIdle(groupJid) ==
    /\ RunsOf(running, resolveKey(groupJid)) > 0
    /\ LET q == notifyIdle(Q, groupJid)
       IN /\ Commit(q)
          /\ UNCHANGED <<ipcVars, hostVars>>
          /\ last' = Did("notifyIdle", groupJid, "void", q, {})
    /\ UNCHANGED <<processMessagesFn, shuttingDown, callsLeft, streak, abandoned>>

\* closeStdin (196-199)
CloseStdin(groupJid) ==
    /\ LET q == closeStdinByKey(Q, resolveKey(groupJid))
       IN /\ Commit(q)
          /\ UNCHANGED <<ipcVars, hostVars>>
          /\ last' = Did("closeStdin", groupJid, "void", q, {})
    /\ UNCHANGED <<processMessagesFn, shuttingDown, callsLeft, streak, abandoned>>

\* the payload sendMessage serialises (182-183)
Payload(text, attachments) ==
    [type |-> "message", text |-> text,
     attachments |-> IF attachments # {} /\ attachments # {<<>>} THEN attachments ELSE {}]

\* the test at the head of sendMessage without its isTaskContainer part
sendMessageRefuses_IgnoresTaskRun(state) ==
    ~state.active \/ state.workspace = Null

\* the test at the head of sendMessage (173)
sendMessageRefuses(state) ==
    ~state.active \/ state.workspace = Null \/ state.isTaskContainer

\* sendMessage leaving the idle report standing (174)
sendMessage_StaysIdle(q, groupJid, text, attachments) ==
    LET key == resolveKey(groupJid)
        state == q.groups[key]
    IN IF sendMessageRefuses(state) THEN q
       ELSE LET files == q.inputDir[state.workspace].files
                name == Cardinality(files) + 1
            IN [q EXCEPT !.inputDir[state.workspace].files =
                             @ \cup {[name |-> name, ext |-> ".json",
                                      content |-> Payload(text, attachments)]}]

\* sendMessage (166-190), the write taken to succeed.  The file name is
\* `${Date.now()}-${random}.json`, taken here as a name the directory does not
\* hold yet.
sendMessage(q, groupJid, text, attachments) ==
    LET key == resolveKey(groupJid)
        state == q.groups[key]
    IN IF sendMessageRefuses(state) THEN q
       ELSE LET files == q.inputDir[state.workspace].files
                name == Cardinality(files) + 1
            IN [q EXCEPT !.groups[key].idleWaiting = FALSE,
                         !.inputDir[state.workspace].files =
                             @ \cup {[name |-> name, ext |-> ".json",
                                      content |-> Payload(text, attachments)]}]

SendMessage(groupJid, text, attachments) ==
    /\ \A w \in Workspaces : Cardinality(inputDir[w].files) < MaxFiles
    /\ LET q == sendMessage(Q, groupJid, text, attachments)
           ret == IF sendMessageRefuses(groups[resolveKey(groupJid)]) THEN "false" ELSE "true"
       IN /\ Commit(q)
          /\ UNCHANGED <<ipcVars, hostVars>>
          /\ last' = Did("sendMessage", groupJid, ret, q, {})
    /\ UNCHANGED <<processMessagesFn, shuttingDown, callsLeft, streak, abandoned>>

\* the continuation of runForGroup where a failure drops the message checks
\* queued for every tenant
settleRunForGroup_FailureDropsQueued(q, key, outcome) ==
    LET q1 == IF outcome = "true"
              THEN [q EXCEPT !.groups[key].retryCount = 0]
              ELSE [scheduleRetry(q, key) EXCEPT
                       !.groups = [k \in Keys |-> [@[k] EXCEPT !.pendingMessages = FALSE]]]
    IN drainGroup(endRunForGroup(q1, key), key)

\* the continuation of runForGroup once processMessagesFn has settled
\* (234-251): outcome is "true", "false" or "throw"
settleRunForGroup(q, key, outcome) ==
    LET q1 == IF outcome = "true"
              THEN [q EXCEPT !.groups[key].retryCount = 0]
              ELSE scheduleRetry(q, key)
    IN drainGroup(endRunForGroup(q1, key), key)

\* History: `streak` counts the failed message runs of a key since its last
\* successful one (MAX_RETRIES + 2 stands for "more").  `abandoned` becomes
\* "quiet" when a failure takes retryCount beyond MAX_RETRIES while the key has
\* no pending task, no pending message check and no retry callback
\* outstanding, "pending" when it does so while some of these exist, and "no"
\* with the next enqueue call from outside for the key.
MessageRunSettles(r, outcome) ==
    /\ r.kind = "messages"
    /\ outcome # "true" =>
          \/ groups[r.key].retryCount > 0
          \/ Cardinality({k \in Keys : groups[k].retryCount > 0}) < MaxBackoff
    /\ LET q == settleRunForGroup([Q EXCEPT !.running = @ (-) One(r)], r.key, outcome)
       IN /\ Commit(q)
          /\ UNCHANGED <<ipcVars, hostVars>>
          /\ last' = Did("runForGroup:" \o outcome, r.key, "void", q, {})
    /\ streak' = [streak EXCEPT ![r.key] =
                     IF outcome = "true" THEN 0
                     ELSE IF @ > MAX_RETRIES THEN MAX_RETRIES + 2 ELSE @ + 1]
    /\ abandoned' = [abandoned EXCEPT ![r.key] =
                     IF outcome # "true" /\ groups[r.key].retryCount + 1 > MAX_RETRIES
                     THEN IF \/ Len(groups[r.key].pendingTasks) > 0
                             \/ groups[r.key].pendingMessages
                             \/ TimersOf(timers, r.key) # {}
                          THEN "pending" ELSE "quiet"
                     ELSE @]
    /\ UNCHANGED <<processMessagesFn, shuttingDown, callsLeft>>

\* the continuation of runTask resetting the retry counter when the task
\* function resolved
settleRunTask_ResetsRetryCount(q, key, outcome) ==
    drainGroup(endRunTask(IF outcome = "return"
                          THEN [q EXCEPT !.groups[key].retryCount = 0] ELSE q, key), key)

\* the continuation of runTask once task.fn() has settled (267-278): it
\* resolved ("return") or rejected ("throw")
settleRunTask(q, key, outcome) ==
    drainGroup(endRunTask(q, key), key)

TaskRunSettles(r, outcome) ==
    /\ r.kind = "task"
    /\ LET q == settleRunTask([Q EXCEPT !.running = @ (-) One(r)], r.key, outcome)
       IN /\ Commit(q)
          /\ UNCHANGED <<ipcVars, hostVars>>
          /\ last' = Did("runTask:" \o outcome, r.key, "void", q, {})
    /\ UNCHANGED <<processMessagesFn, shuttingDown, callsLeft, streak, abandoned>>

\* the callback scheduleRetry hands to setTimeout (298-302)
retryCallback(q, jid) ==
    IF ~shuttingDown THEN enqueueMessageCheck(q, jid) ELSE q

RetryTimerFires(t) ==
    /\ LET q == retryCallback([Q EXCEPT !.timers = @ (-) One(t)], t.jid)
       IN /\ Commit(q)
          /\ UNCHANGED <<ipcVars, hostVars>>
          /\ last' = Did("retryTimer", t.jid, "void", q, {})
    /\ UNCHANGED <<processMessagesFn, shuttingDown, callsLeft, streak, abandoned>>

\* shutdown (354-371): the loop only collects the names it logs
detachedContainers(q) ==
    {q.groups[k].containerName :
        k \in {k \in Keys : /\ q.groups[k].process # Null
                            /\ q.groups[k].process # ProcKilled
                            /\ q.groups[k].containerName # Null}}

\* shutdown killing the processes it finds live
shutdown_KillsProcesses(q) ==
    [q EXCEPT !.groups = [k \in Keys |->
        IF @[k].process = ProcLive THEN [@[k] EXCEPT !.process = ProcKilled] ELSE @[k]]]

shutdown(q) == q

Shutdown ==
    /\ shuttingDown' = TRUE
    /\ LET q == shutdown(Q)
       IN /\ Commit(q)
          /\ UNCHANGED <<ipcVars, hostVars>>
          /\ last' = Did("shutdown", Null, "void", q, detachedContainers(q))
    /\ UNCHANGED <<processMessagesFn, callsLeft, streak, abandoned>>

InitQueue(calls) ==
    /\ groups = [k \in Keys |-> InitialGroupState]
    /\ activeCount = 0
    /\ waitingGroups = <<>>
    /\ processMessagesFn = Null
    /\ shuttingDown = FALSE
    /\ running = EmptyBag
    /\ timers = EmptyBag
    /\ inputDir = [w \in Workspaces |-> [files |-> {}, close |-> FALSE]]
    /\ callsLeft = calls
    /\ streak = [k \in Keys |-> 0]
    /\ abandoned = [k \in Keys |-> "no"]
    /\ last = [op |-> "constructor", arg |-> Null, ret |-> "void", started |-> <<>>,
               scheduled |-> <<>>, taken |-> <<>>, closed |-> <<>>, detached |-> {}]

(***************************************************************************)
(* The IPC watcher (ipc.ts): what a file's content is and the pure helpers *)
(* the handlers call.                                                      *)
(***************************************************************************)

\* config.ts is not part of the sources at hand; ipc.ts imports these names
MAIN_WORKSPACE == "main"
DATA_DIR == <<"data">>
GROUPS_DIR == <<"groups">>

\* the workspaces that have a directory under data/ipc, as readdirSync (122)
\* lists them
IpcDirListing == <<MAIN_WORKSPACE, "wa">>
IpcWorkspaces == {IpcDirListing[i] : i \in 1..Len(IpcDirListing)}

\* the file names the sandboxes use, in the order Array.prototype.sort puts
\* them; a sandbox names its files after the time of writing
FileNamesAscending == <<"1.json", "2.json", "3.json">>

\* files the sandboxes drop during a behaviour
MaxIpcFiles == 2

\* A parsed file: every field the handlers read, and three fields in which a
\* sandbox states who it is (groupFolder, isMain, and workspace in every
\* request but register_group, whose workspace field names the new tenant).
\* "" and <<>> stand for an absent field: the handlers only test truthiness.
\* Strings the code takes apart are sequences of characters (messageId,
\* schedule_value) or of path segments (imagePath).
NoData ==
    [type |-> "", chatJid |-> "", text |-> "", emoji |-> "", messageId |-> <<>>,
     imagePath |-> <<>>, caption |-> "", taskId |-> "", prompt |-> "",
     schedule_type |-> "", schedule_value |-> <<>>, context_mode |-> "",
     targetJid |-> "", jid |-> "", name |-> "", workspace |-> "", trigger |-> "",
     groupFolder |-> "", isMain |-> FALSE]

\* the characters of the workspace names and path segments that occur
chars(s) ==
    CASE s = "main" -> <<"m", "a", "i", "n">>
      [] s = "wa" -> <<"w", "a">>
      [] s = "wb" -> <<"w", "b">>
      [] s = "wc" -> <<"w", "c">>
      [] s = "Global" -> <<"G", "l", "o", "b", "a", "l">>
      [] s = "../x" -> <<".", ".", "/", "x">>
      [] s = ".ssh" -> <<".", "s", "s", "h">>
      [] s = ".env" -> <<".", "e", "n", "v">>
      [] s = "credentials" -> <<"c", "r", "e", "d", "e", "n", "t", "i", "a", "l", "s">>
      [] s = "Credentials" -> <<"C", "r", "e", "d", "e", "n", "t", "i", "a", "l", "s">>
      [] s = "work" -> <<"w", "o", "r", "k">>
      [] s = "other" -> <<"o", "t", "h", "e", "r">>
      [] s = "project" -> <<"p", "r", "o", "j", "e", "c", "t">>
      [] s = "docs" -> <<"d", "o", "c", "s">>
      [] s = "data" -> <<"d", "a", "t", "a">>
      [] s = "id_rsa" -> <<"i", "d", "_", "r", "s", "a">>
      [] OTHER -> <<>>

Digits == <<"0", "1", "2", "3", "4", "5", "6", "7", "8", "9">>
Lower == <<"a", "b", "c", "d", "e", "f", "g", "h", "i", "j", "k", "l", "m",
           "n", "o", "p", "q", "r", "s", "t", "u", "v", "w", "x", "y", "z">>
Upper == <<"A", "B", "C", "D", "E", "F", "G", "H", "I", "J", "K", "L", "M",
           "N", "O", "P", "Q", "R", "S", "T", "U", "V", "W", "X", "Y", "Z">>
Range(seq) == {seq[i] : i \in 1..Len(seq)}
isDigit(c) == c \in Range(Digits)
digitValue(c) == (CHOOSE i \in 1..Len(Digits) : Digits[i] = c) - 1

\* String.prototype.toLowerCase, character by character
toLowerCase(cs) ==
    [i \in 1..Len(cs) |->
        IF cs[i] \in Range(Upper)
        THEN Lower[CHOOSE k \in 1..Len(Upper) : Upper[k] = cs[i]]
        ELSE cs[i]]

\* String.prototype.indexOf: 0-based, -1 when absent
indexOf(cs, c) ==
    IF c \in Range(cs)
    THEN (CHOOSE i \in 1..Len(cs) : cs[i] = c /\ \A k \in 1..(i - 1) : cs[k] # c) - 1
    ELSE -1

\* String.prototype.slice(from, to) with 0 <= from <= to
slice(cs, from, to) == SubSeq(cs, from + 1, to)

\* String.prototype.includes for a run of characters
includes(cs, run) ==
    \E i \in 1..(Len(cs) - Len(run) + 1) : SubSeq(cs, i, i + Len(run) - 1) = run

\* the white space String.prototype.trim removes, as far as it occurs
WhiteSpace == {" ", "\t", "\n"}

\* String.prototype.trim leaves the string as it is
isTrimmed(cs) == cs = <<>> \/ (Head(cs) \notin WhiteSpace /\ cs[Len(cs)] \notin WhiteSpace)

NaN == [nan |-> TRUE, value |-> 0]

RECURSIVE trimStart(_)
trimStart(cs) == IF cs # <<>> /\ Head(cs) = " " THEN trimStart(Tail(cs)) ELSE cs

RECURSIVE digitsValue(_, _)
digitsValue(cs, acc) ==
    IF cs = <<>> \/ ~isDigit(Head(cs)) THEN acc
    ELSE digitsValue(Tail(cs), 10 * acc + digitValue(Head(cs)))

\* parseInt(s, 10): leading blanks, an optional sign, then the longest run of
\* digits; NaN when there is no digit
parseInt(cs) ==
    LET s == trimStart(cs)
        signed == s # <<>> /\ Head(s) \in {"+", "-"}
        body == IF signed THEN Tail(s) ELSE s
        v == digitsValue(body, 0)
    IN IF body = <<>> \/ ~isDigit(Head(body)) THEN NaN
       ELSE [nan |-> FALSE, value |-> IF signed /\ Head(s) = "-" THEN 0 - v ELSE v]

\* parseSignalMessageId (router.ts 62-68); ok = FALSE stands for null
parseSignalMessageId(id) ==
    LET dashIdx == indexOf(id, "-")
        timestamp == parseInt(slice(id, 0, dashIdx))
        null == [ok |-> FALSE, timestamp |-> 0, author |-> <<>>]
    IN IF dashIdx <= 0 THEN null
       ELSE IF timestamp.nan THEN null
       ELSE [ok |-> TRUE, timestamp |-> timestamp.value,
             author |-> slice(id, dashIdx + 1, Len(id))]

\* WORKSPACE_PATTERN (workspace.ts 5): /^[A-Za-z0-9][A-Za-z0-9_-]{0,63}$/
WORKSPACE_PATTERN(cs) ==
    LET alnum == Range(Lower) \cup Range(Upper) \cup Range(Digits)
    IN /\ cs # <<>>
       /\ Head(cs) \in alnum
       /\ Len(cs) - 1 <= 63
       /\ \A i \in 2..Len(cs) : cs[i] \in alnum \cup {"_", "-"}

RESERVED_WORKSPACES == {<<"g", "l", "o", "b", "a", "l">>}

\* isValidWorkspace without the test for reserved names
isValidWorkspaceName_NoReservedTest(cs) ==
    /\ cs # <<>>
    /\ isTrimmed(cs)
    /\ WORKSPACE_PATTERN(cs)

\* isValidWorkspace (workspace.ts 8-16) on the characters of the name
isValidWorkspaceName(cs) ==
    /\ cs # <<>>
    /\ isTrimmed(cs)
    /\ WORKSPACE_PATTERN(cs)
    /\ ~("/" \in Range(cs) \/ "\\" \in Range(cs))
    /\ ~includes(cs, <<".", ".">>)
    /\ toLowerCase(cs) \notin RESERVED_WORKSPACES

\* isValidWorkspace (workspace.ts 8-16) on a name of the model
isValidWorkspace(workspace) == isValidWorkspaceName(chars(workspace))

\* path.resolve(baseDir, relative) on segments, baseDir absolute
RECURSIVE resolve(_, _)
resolve(base, rel) ==
    IF rel = <<>> THEN base
    ELSE IF Head(rel) = ".."
    THEN resolve(IF base = <<>> THEN base ELSE SubSeq(base, 1, Len(base) - 1), Tail(rel))
    ELSE IF Head(rel) \in {".", ""} THEN resolve(base, Tail(rel))
    ELSE resolve(Append(base, Head(rel)), Tail(rel))

\* a path is another one or lies below it
startsWith(p, prefix) == Len(p) >= Len(prefix) /\ SubSeq(p, 1, Len(prefix)) = prefix

\* containerToHostPath (69-88); threw = TRUE stands for either Error
containerToHostPath(containerPath, workspace) ==
    LET inIpc == Len(containerPath) > 2 /\ startsWith(containerPath, <<"workspace", "ipc">>)
        inGroup == Len(containerPath) > 2 /\ startsWith(containerPath, <<"workspace", "group">>)
        baseDir == IF inIpc THEN DATA_DIR \o <<"ipc", workspace>>
                   ELSE GROUPS_DIR \o <<workspace>>
        resolved == resolve(baseDir, SubSeq(containerPath, 3, Len(containerPath)))
    IN IF ~inIpc /\ ~inGroup THEN [threw |-> TRUE, path |-> <<>>]
       ELSE IF ~startsWith(resolved, baseDir) THEN [threw |-> TRUE, path |-> <<>>]
       ELSE [threw |-> FALSE, path |-> resolved]

\* the files on the host that fs.existsSync (198) finds
HostFiles ==
    {DATA_DIR \o <<"ipc", w, "out.png">> : w \in IpcWorkspaces \cup {"wb"}}

\* deps.sendReaction and deps.sendImage are optional (92-93); the host passes both
HasSendReaction == TRUE
HasSendImage == TRUE

(***************************************************************************)
(* The IPC watcher's handlers, as functions of what they read and change:  *)
(* s holds the registry, the task store, the calls made on deps, the log   *)
(* and whether the handler threw.  fate says how the one call on deps or   *)
(* on the store that a handler makes ends: "ok" or "throw".                *)
(***************************************************************************)
IpcState ==
    [registeredGroups |-> registeredGroups, tasks |-> tasks, sent |-> sent,
     ipcLog |-> ipcLog, taskSeq |-> taskSeq, threw |-> FALSE]

Fates == {"ok", "throw"}

\* a call on deps with its arguments
Call(fn) ==
    [fn |-> fn, jid |-> "", text |-> "", emoji |-> "", timestamp |-> 0,
     author |-> <<>>, path |-> <<>>, caption |-> "", workspace |-> ""]

logged(s, line) == [s EXCEPT !.ipcLog = Append(@, line)]

\* an awaited call on deps: it is made, and either resolves, and the line
\* after it is logged, or rejects
called(s, call, fate, line) ==
    LET s1 == [s EXCEPT !.sent = Append(@, call)]
    IN IF fate = "throw" THEN [s1 EXCEPT !.threw = TRUE] ELSE logged(s1, line)

\* registeredGroups[jid] (152, 171, 191, 318); Null stands for undefined
groupOf(registry, jid) == IF jid \in DOMAIN registry THEN registry[jid] ELSE Null

\* the test of 153-156 with every target allowed that is registered at all
mayDeliver_AnyRegistered(registry, isMain, sourceWorkspace, chatJid) ==
    isMain \/ groupOf(registry, chatJid) # Null

\* the authorization of an outbound request (153-156, 172-175, 192-195)
mayDeliver(registry, isMain, sourceWorkspace, chatJid) ==
    LET targetGroup == groupOf(registry, chatJid)
    IN isMain \/ (targetGroup # Null /\ targetGroup = sourceWorkspace)

\* the branches on a parsed file of the messages directory (150-222)
dispatchMessage(s, sourceWorkspace, isMain, data, fate) ==
    LET allowed == mayDeliver(s.registeredGroups, isMain, sourceWorkspace, data.chatJid)
    IN IF data.type = "message" /\ data.chatJid # "" /\ data.text # ""
       THEN IF allowed
            THEN called(s, [Call("sendMessage") EXCEPT !.jid = data.chatJid,
                                                       !.text = data.text],
                        fate, "IPC message sent")
            ELSE logged(s, "Unauthorized IPC message attempt blocked")
       ELSE IF /\ data.type = "reaction" /\ data.chatJid # "" /\ data.emoji # ""
               /\ data.messageId # <<>> /\ HasSendReaction
       THEN LET parsed == parseSignalMessageId(data.messageId)
            IN IF ~parsed.ok THEN logged(s, "Invalid message ID for reaction")
               ELSE IF allowed
               THEN called(s, [Call("sendReaction") EXCEPT !.jid = data.chatJid,
                                                           !.emoji = data.emoji,
                                                           !.timestamp = parsed.timestamp,
                                                           !.author = parsed.author],
                           fate, "IPC reaction sent")
               ELSE logged(s, "Unauthorized IPC reaction attempt blocked")
       ELSE IF /\ data.type = "image" /\ data.chatJid # "" /\ data.imagePath # <<>>
               /\ HasSendImage
       THEN IF ~allowed THEN logged(s, "Unauthorized IPC image attempt blocked")
            ELSE LET hostPath == containerToHostPath(data.imagePath, sourceWorkspace)
                 IN IF hostPath.threw THEN logged(s, "Failed to map or send IPC image")
                    ELSE IF hostPath.path \notin HostFiles
                    THEN logged(s, "IPC image file not found on host")
                    ELSE LET s1 == called(s, [Call("sendImage") EXCEPT
                                                 !.jid = data.chatJid,
                                                 !.path = hostPath.path,
                                                 !.caption = data.caption],
                                          fate, "IPC image sent")
                         \* the inner catch (210-215) keeps the rejection
                         IN IF s1.threw
                            THEN logged([s1 EXCEPT !.threw = FALSE],
                                        "Failed to map or send IPC image")
                            ELSE s1
       ELSE s

\* handling one file of the messages directory with isMain taken from the
\* file where it states one
handleMessageFile_TrustsClaim(s, sourceWorkspace, file, fate) ==
    IF ~file.valid
    THEN logged([s EXCEPT !.threw = TRUE], "Error processing IPC message")
    ELSE LET r == dispatchMessage(s, sourceWorkspace,
                                  sourceWorkspace = MAIN_WORKSPACE \/ file.data.isMain,
                                  file.data, fate)
         IN IF r.threw THEN logged(r, "Error processing IPC message") ELSE r

\* handling one file of the messages directory (135, 147-235): JSON.parse,
\* the branches, and the catch; what becomes of the file follows from threw
handleMessageFile(s, sourceWorkspace, file, fate) ==
    IF ~file.valid
    THEN logged([s EXCEPT !.threw = TRUE], "Error processing IPC message")
    ELSE LET r == dispatchMessage(s, sourceWorkspace, sourceWorkspace = MAIN_WORKSPACE,
                                  file.data, fate)
         IN IF r.threw THEN logged(r, "Error processing IPC message") ELSE r

\* the task store of db.ts (createTask, getTaskById, updateTask, deleteTask)
createTask(store, task) == store \cup {task}
getTaskById(store, id) == {t \in store : t.id = id}
updateTask(store, id, status) ==
    {IF t.id = id THEN [t EXCEPT !.status = status] ELSE t : t \in store}
deleteTask(store, id) == {t \in store : t.id # id}

\* the schedule values that occur
CronDaily == <<"0", " ", "9", " ", "*", " ", "*", " ", "*">>
IsoDate == <<"2", "0", "3", "0", "-", "0", "1", "-", "0", "1">>
\* CronExpressionParser.parse (344) accepts the value
isCronExpression(value) == value = CronDaily
\* new Date(value) (366) is a valid date
isDate(value) == value = IsoDate

NextRun(kind, ms) == [kind |-> kind, ms |-> ms]

\* the computation of nextRun (339-375): ok = FALSE is the break after a warning
nextRunOf(schedule_type, schedule_value) ==
    IF schedule_type = "cron"
    THEN IF isCronExpression(schedule_value)
         THEN [ok |-> TRUE, nextRun |-> NextRun("cron", 0), line |-> ""]
         ELSE [ok |-> FALSE, nextRun |-> NextRun("null", 0), line |-> "Invalid cron expression"]
    ELSE IF schedule_type = "interval"
    THEN LET ms == parseInt(schedule_value)
         IN IF ms.nan \/ ms.value <= 0
            THEN [ok |-> FALSE, nextRun |-> NextRun("null", 0), line |-> "Invalid interval"]
            ELSE [ok |-> TRUE, nextRun |-> NextRun("now+", ms.value), line |-> ""]
    ELSE IF schedule_type = "once"
    THEN IF ~isDate(schedule_value)
         THEN [ok |-> FALSE, nextRun |-> NextRun("null", 0), line |-> "Invalid timestamp"]
         ELSE [ok |-> TRUE, nextRun |-> NextRun("at", 0), line |-> ""]
    ELSE [ok |-> TRUE, nextRun |-> NextRun("null", 0), line |-> ""]

\* a call on the store: it takes effect and returns, or throws
stored(s, store, fate, line) ==
    IF fate = "throw" THEN [s EXCEPT !.threw = TRUE]
    ELSE logged([s EXCEPT !.tasks = store], line)

\* case 'schedule_task' without the test that keeps a workspace to its own
\* chats (331-337)
scheduleTask_NoAuthorization(s, data, sourceWorkspace, isMain, fate) ==
    IF /\ data.prompt # "" /\ data.schedule_type # "" /\ data.schedule_value # <<>>
       /\ data.targetJid # ""
    THEN LET targetGroupEntry == groupOf(s.registeredGroups, data.targetJid)
             next == nextRunOf(data.schedule_type, data.schedule_value)
             task == [id |-> "task-" \o ToString(s.taskSeq),
                      workspace |-> targetGroupEntry, chat_jid |-> data.targetJid,
                      prompt |-> data.prompt, schedule_type |-> data.schedule_type,
                      schedule_value |-> data.schedule_value,
                      context_mode |-> IF data.context_mode \in {"group", "isolated"}
                                       THEN data.context_mode ELSE "isolated",
                      next_run |-> next.nextRun, status |-> "active"]
         IN IF targetGroupEntry = Null
            THEN logged(s, "Cannot schedule task: target group not registered")
            ELSE IF ~next.ok THEN logged(s, next.line)
            ELSE stored([s EXCEPT !.taskSeq = @ + 1], createTask(s.tasks, task), fate,
                        "Task created via IPC")
    ELSE s

\* case 'schedule_task' (309-399)
scheduleTask(s, data, sourceWorkspace, isMain, fate) ==
    IF /\ data.prompt # "" /\ data.schedule_type # "" /\ data.schedule_value # <<>>
       /\ data.targetJid # ""
    THEN LET targetGroupEntry == groupOf(s.registeredGroups, data.targetJid)
             targetWorkspace == targetGroupEntry
             next == nextRunOf(data.schedule_type, data.schedule_value)
             contextMode == IF data.context_mode \in {"group", "isolated"}
                            THEN data.context_mode ELSE "isolated"
             task == [id |-> "task-" \o ToString(s.taskSeq),
                      workspace |-> targetWorkspace, chat_jid |-> data.targetJid,
                      prompt |-> data.prompt, schedule_type |-> data.schedule_type,
                      schedule_value |-> data.schedule_value,
                      context_mode |-> contextMode, next_run |-> next.nextRun,
                      status |-> "active"]
         IN IF targetGroupEntry = Null
            THEN logged(s, "Cannot schedule task: target group not registered")
            ELSE IF ~isMain /\ targetWorkspace # sourceWorkspace
            THEN logged(s, "Unauthorized schedule_task attempt blocked")
            ELSE IF ~next.ok THEN logged(s, next.line)
            ELSE stored([s EXCEPT !.taskSeq = @ + 1], createTask(s.tasks, task), fate,
                        "Task created via IPC")
    ELSE s

\* case 'pause_task', 'resume_task', 'cancel_task' without the test of the
\* task's workspace (404, 422, 440)
changeTask_NoOwnerTest(s, data, sourceWorkspace, isMain, fate) ==
    LET task == getTaskById(s.tasks, data.taskId)
        verb == IF data.type = "pause_task" THEN "pause"
                ELSE IF data.type = "resume_task" THEN "resume" ELSE "cancel"
    IN IF data.taskId = "" THEN s
       ELSE IF task # {}
       THEN IF data.type = "pause_task"
            THEN stored(s, updateTask(s.tasks, data.taskId, "paused"), fate,
                        "Task paused via IPC")
            ELSE IF data.type = "resume_task"
            THEN stored(s, updateTask(s.tasks, data.taskId, "active"), fate,
                        "Task resumed via IPC")
            ELSE stored(s, deleteTask(s.tasks, data.taskId), fate,
                        "Task cancelled via IPC")
       ELSE logged(s, "Unauthorized task " \o verb \o " attempt")

\* case 'pause_task', 'resume_task', 'cancel_task' (401-453)
changeTask(s, data, sourceWorkspace, isMain, fate) ==
    LET task == getTaskById(s.tasks, data.taskId)
        verb == IF data.type = "pause_task" THEN "pause"
                ELSE IF data.type = "resume_task" THEN "resume" ELSE "cancel"
    IN IF data.taskId = "" THEN s
       ELSE IF task # {} /\ (isMain \/ \A t \in task : t.workspace = sourceWorkspace)
       THEN IF data.type = "pause_task"
            THEN stored(s, updateTask(s.tasks, data.taskId, "paused"), fate,
                        "Task paused via IPC")
            ELSE IF data.type = "resume_task"
            THEN stored(s, updateTask(s.tasks, data.taskId, "active"), fate,
                        "Task resumed via IPC")
            ELSE stored(s, deleteTask(s.tasks, data.taskId), fate,
                        "Task cancelled via IPC")
       ELSE logged(s, "Unauthorized task " \o verb \o " attempt")

\* case 'refresh_groups' (455-477): syncGroupMetadata is awaited, then the
\* snapshot is written
refreshGroups(s, data, sourceWorkspace, isMain, fate) ==
    IF isMain
    THEN LET s1 == logged(s, "Group metadata refresh requested via IPC")
             s2 == [s1 EXCEPT !.sent = Append(@, Call("syncGroupMetadata"))]
         IN IF fate = "throw" THEN [s2 EXCEPT !.threw = TRUE]
            ELSE [s2 EXCEPT !.sent = Append(@, [Call("writeGroupsSnapshot") EXCEPT
                                                   !.workspace = sourceWorkspace])]
    ELSE logged(s, "Unauthorized refresh_groups attempt blocked")

\* case 'register_group' without the test for the main workspace (481-487)
registerGroup_NoMainTest(s, data, sourceWorkspace, isMain, fate) ==
    IF data.jid # "" /\ data.name # "" /\ data.workspace # "" /\ data.trigger # ""
    THEN IF ~isValidWorkspace(data.workspace)
         THEN logged(s, "Invalid register_group request - unsafe workspace name")
         ELSE LET s1 == [s EXCEPT !.registeredGroups =
                            [j \in DOMAIN @ \cup {data.jid} |->
                                IF j = data.jid THEN data.workspace ELSE @[j]]]
              IN IF fate = "throw" THEN [s1 EXCEPT !.threw = TRUE] ELSE s1
    ELSE logged(s, "Invalid register_group request - missing required fields")

\* case 'register_group' (479-510); deps.registerGroup (95) records the
\* tenant, and may throw once it has
registerGroup(s, data, sourceWorkspace, isMain, fate) ==
    IF ~isMain THEN logged(s, "Unauthorized register_group attempt blocked")
    ELSE IF data.jid # "" /\ data.name # "" /\ data.workspace # "" /\ data.trigger # ""
    THEN IF ~isValidWorkspace(data.workspace)
         THEN logged(s, "Invalid register_group request - unsafe workspace name")
         ELSE LET s1 == [s EXCEPT !.registeredGroups =
                            [j \in DOMAIN @ \cup {data.jid} |->
                                IF j = data.jid THEN data.workspace ELSE @[j]]]
              IN IF fate = "throw" THEN [s1 EXCEPT !.threw = TRUE] ELSE s1
    ELSE logged(s, "Invalid register_group request - missing required fields")

\* processTaskIpc (284-515)
processTaskIpc(s, data, sourceWorkspace, isMain, fate) ==
    IF data.type = "schedule_task" THEN scheduleTask(s, data, sourceWorkspace, isMain, fate)
    ELSE IF data.type \in {"pause_task", "resume_task", "cancel_task"}
    THEN changeTask(s, data, sourceWorkspace, isMain, fate)
    ELSE IF data.type = "refresh_groups"
    THEN refreshGroups(s, data, sourceWorkspace, isMain, fate)
    ELSE IF data.type = "register_group"
    THEN registerGroup(s, data, sourceWorkspace, isMain, fate)
    ELSE logged(s, "Unknown IPC task type")

\* handling one file of the tasks directory (135, 251-270)
handleTaskFile(s, sourceWorkspace, file, fate) ==
    IF ~file.valid
    THEN logged([s EXCEPT !.threw = TRUE], "Error processing IPC task")
    ELSE LET r == processTaskIpc(s, file.data, sourceWorkspace,
                                 sourceWorkspace = MAIN_WORKSPACE, fate)
         IN IF r.threw THEN logged(r, "Error processing IPC task") ELSE r

(***************************************************************************)
(* The files the sandboxes drop.  A sandbox writes what it likes into its  *)
(* own IPC directory, so every request comes both as it is and with the    *)
(* sender stating that it is the main workspace.                           *)
(***************************************************************************)
ValidMessageId == <<"1", "7", "-", "+", "4">>
BadMessageId == <<"x", "-", "+", "4">>

ImagePaths ==
    {<<"workspace", "ipc", "out.png">>,
     <<"workspace", "ipc", "..", "wb", "out.png">>,
     <<"workspace", "group", "none.png">>}

Message(jid, text) == [NoData EXCEPT !.type = "message", !.chatJid = jid, !.text = text]
Reaction(jid, id) ==
    [NoData EXCEPT !.type = "reaction", !.chatJid = jid, !.emoji = "+1", !.messageId = id]
Image(jid, p) == [NoData EXCEPT !.type = "image", !.chatJid = jid, !.imagePath = p]
Schedule(jid, type, value) ==
    [NoData EXCEPT !.type = "schedule_task", !.prompt = "p", !.schedule_type = type,
                   !.schedule_value = value, !.targetJid = jid]
TaskChange(type, id) == [NoData EXCEPT !.type = type, !.taskId = id]
Register(jid, workspace, trigger) ==
    [NoData EXCEPT !.type = "register_group", !.jid = jid, !.name = "n",
                   !.workspace = workspace, !.trigger = trigger]

\* a request with the sender claiming to be the main workspace
claimingMain(d) ==
    [d EXCEPT !.groupFolder = MAIN_WORKSPACE, !.isMain = TRUE,
              !.workspace = IF d.type = "register_group" THEN @ ELSE MAIN_WORKSPACE]

MessageRequests ==
    {Message("a1", "hi"), Message("b1", "hi"), Message("a1", ""),
     Reaction("a1", ValidMessageId), Reaction("b1", ValidMessageId),
     Reaction("a1", BadMessageId),
     Image("b1", <<"workspace", "ipc", "out.png">>),
     [NoData EXCEPT !.type = "ping"]}
    \cup {Image("a1", p) : p \in ImagePaths}

TaskRequests ==
    {Schedule(j, "interval", <<"3", "0", "0">>) : j \in {"a1", "b1", "c1"}}
    \cup {Schedule("a1", "cron", CronDaily), Schedule("a1", "interval", <<"0">>),
          Schedule("a1", "interval", <<"5", "m">>),
          Schedule("a1", "once", <<"x">>), Schedule("a1", "weekly", <<"3", "0", "0">>)}
    \cup {TaskChange("pause_task", "task-wa"), TaskChange("pause_task", "task-wb"),
          TaskChange("resume_task", "task-wb"),
          TaskChange("cancel_task", "task-wb"), TaskChange("cancel_task", "task-0"),
          TaskChange("cancel_task", "")}
    \cup {[NoData EXCEPT !.type = "refresh_groups"]}
    \cup {Register("c1", "wc", "@n"), Register("a1", "wb", "@n"),
          Register("c1", "Global", "@n"), Register("c1", "../x", "@n"),
          Register("c1", "wc", "")}
    \cup {[NoData EXCEPT !.type = "ping"]}

File(name, valid, data) == [name |-> name, valid |-> valid, data |-> data]

\* what a sandbox of workspace w may put into a file: a request, the same
\* with the claim to be the main workspace, or no JSON at all
Contents(w, requests) ==
    {<<TRUE, d>> : d \in requests}
    \cup (IF w = MAIN_WORKSPACE THEN {} ELSE {<<TRUE, claimingMain(d)>> : d \in requests})
    \cup {<<FALSE, NoData>>}

\* the tasks in the store when the watcher starts
StoredTask(id, workspace, jid) ==
    [id |-> id, workspace |-> workspace, chat_jid |-> jid, prompt |-> "p",
     schedule_type |-> "interval", schedule_value |-> <<"3", "0", "0">>,
     context_mode |-> "isolated", next_run |-> NextRun("now+", 300), status |-> "active"]

(***************************************************************************)
(* The IPC watcher's steps                                                 *)
(***************************************************************************)
NamesIn(dir) == {f.name : f \in dir}
FileNamed(dir, name) == CHOOSE f \in dir : f.name = name

\* the orders in which readdirSync may list a set of names
Orders(names) ==
    {o \in [1..Cardinality(names) -> names] : \A i, k \in DOMAIN o : i # k => o[i] # o[k]}

\* readdirSync(...).filter(.json).sort() (142-145)
sorted(names) == SelectSeq(FileNamesAscending, LAMBDA n : n \in names)

DidIpc(op, dir, name, file, s) ==
    [op |-> op, dir |-> dir, name |-> name, valid |-> file.valid, data |-> file.data,
     threw |-> s.threw,
     calls |-> SubSeq(s.sent, Len(sent) + 1, Len(s.sent)),
     lines |-> SubSeq(s.ipcLog, Len(ipcLog) + 1, Len(s.ipcLog))]

NoFile == File("", TRUE, NoData)

CommitIpc(s) ==
    /\ registeredGroups' = s.registeredGroups
    /\ tasks' = s.tasks
    /\ sent' = s.sent
    /\ ipcLog' = s.ipcLog
    /\ taskSeq' = s.taskSeq

\* a sandbox drops a file into the messages or the tasks directory of its
\* workspace
SandboxWrites(w, kind, content) ==
    /\ ipcWatcherRunning
    /\ writesLeft > 0
    /\ MaxIpcFiles - writesLeft < Len(FileNamesAscending)
    /\ LET name == FileNamesAscending[MaxIpcFiles - writesLeft + 1]
       IN ipcDirs' = [ipcDirs EXCEPT ![w][kind] =
                         @ \cup {File(name, content[1], content[2])}]
    /\ writesLeft' = writesLeft - 1
    /\ UNCHANGED <<ipcWatcherRunning, pollLoops, startCalls, poll, errorsDir, registeredGroups, tasks, sent,
                   ipcLog, taskSeq, lastIpc>>
    /\ UNCHANGED <<queueVars, hostVars>>

\* the pass turns to the workspaces left (134-145): it lists the messages
\* directory of the first, or, none being left, sets the timer of the next
\* pass (277)
turnTo(workspaces) ==
    IF workspaces = <<>>
    THEN [phase |-> "timer", workspaces |-> <<>>, files |-> <<>>]
    ELSE [phase |-> "messages", workspaces |-> workspaces,
          files |-> sorted(NamesIn(ipcDirs[Head(workspaces)].messages))]

\* startIpcWatcher without the test of the flag
startIpcWatcher_NoGuard(isRunning, loops, p) ==
    [ipcWatcherRunning |-> TRUE, pollLoops |-> loops + 1, poll |-> turnTo(IpcDirListing)]

\* startIpcWatcher (108-116, 280-281): the first call starts the first pass,
\* every other call returns at once
startIpcWatcher(isRunning, loops, p) ==
    IF isRunning
    THEN [ipcWatcherRunning |-> isRunning, pollLoops |-> loops, poll |-> p]
    ELSE [ipcWatcherRunning |-> TRUE, pollLoops |-> loops + 1,
          poll |-> turnTo(IpcDirListing)]

StartIpcWatcher ==
    /\ startCalls < MaxStartCalls
    /\ startCalls' = startCalls + 1
    /\ LET s == startIpcWatcher(ipcWatcherRunning, pollLoops, poll)
       IN /\ ipcWatcherRunning' = s.ipcWatcherRunning
          /\ pollLoops' = s.pollLoops
          /\ poll' = s.poll
    /\ UNCHANGED <<ipcDirs, errorsDir, registeredGroups, tasks, sent, ipcLog, taskSeq,
                   writesLeft, lastIpc>>
    /\ UNCHANGED <<queueVars, hostVars>>

\* the callback of setTimeout(processIpcFiles, IPC_POLL_INTERVAL) (277)
PollTimerFires ==
    /\ poll.phase = "timer"
    /\ poll' = turnTo(IpcDirListing)
    /\ UNCHANGED <<ipcWatcherRunning, pollLoops, startCalls, ipcDirs, errorsDir, registeredGroups, tasks, sent,
                   ipcLog, taskSeq, writesLeft, lastIpc>>
    /\ UNCHANGED <<queueVars, hostVars>>

\* a handled file is unlinked whether handling it threw or not
disposeOf_AlwaysUnlinks(kind, w, name, threw) ==
    /\ ipcDirs' = [ipcDirs EXCEPT ![w][kind] = {f \in @ : f.name # name}]
    /\ errorsDir' = errorsDir

\* what becomes of a handled file: unlinked (223, 257), or renamed into the
\* errors directory (229-234, 263-268)
disposeOf(kind, w, name, threw) ==
    /\ ipcDirs' = [ipcDirs EXCEPT ![w][kind] = {f \in @ : f.name # name}]
    /\ errorsDir' = IF threw THEN errorsDir \cup {w \o "-" \o name} ELSE errorsDir

\* an exception in a file ends the loop over the files of its directory
nextFile_ThrowEndsLoop(p, threw) ==
    [p EXCEPT !.files = IF threw THEN <<>> ELSE Tail(@)]

\* the loop over the files of a directory goes on with the next file,
\* whether the turn ended in the try block or in its catch (146, 224-235;
\* 251, 258-269)
nextFile(p, threw) == [p EXCEPT !.files = Tail(@)]

\* one turn of the loop over the message files (146-236)
ProcessMessageFile(fate) ==
    /\ poll.phase = "messages"
    /\ poll.files # <<>>
    /\ LET sourceWorkspace == Head(poll.workspaces)
           name == Head(poll.files)
           file == FileNamed(ipcDirs[sourceWorkspace].messages, name)
           s == handleMessageFile(IpcState, sourceWorkspace, file, fate)
       IN /\ CommitIpc(s)
          /\ disposeOf("messages", sourceWorkspace, name, s.threw)
          /\ lastIpc' = DidIpc("message", sourceWorkspace, name, file, s)
          /\ poll' = nextFile(poll, s.threw)
    /\ UNCHANGED <<ipcWatcherRunning, pollLoops, startCalls, writesLeft>>
    /\ UNCHANGED <<queueVars, hostVars>>

\* the message files are done; the tasks directory is listed (246-250)
ListTasks ==
    /\ poll.phase = "messages"
    /\ poll.files = <<>>
    /\ \E order \in Orders(NamesIn(ipcDirs[Head(poll.workspaces)].tasks)) :
          poll' = [poll EXCEPT !.phase = "tasks", !.files = order]
    /\ UNCHANGED <<ipcWatcherRunning, pollLoops, startCalls, ipcDirs, errorsDir, registeredGroups, tasks, sent,
                   ipcLog, taskSeq, writesLeft, lastIpc>>
    /\ UNCHANGED <<queueVars, hostVars>>

\* one turn of the loop over the task files (251-270)
ProcessTaskFile(fate) ==
    /\ poll.phase = "tasks"
    /\ poll.files # <<>>
    /\ LET sourceWorkspace == Head(poll.workspaces)
           name == Head(poll.files)
           file == FileNamed(ipcDirs[sourceWorkspace].tasks, name)
           s == handleTaskFile(IpcState, sourceWorkspace, file, fate)
       IN /\ CommitIpc(s)
          /\ disposeOf("tasks", sourceWorkspace, name, s.threw)
          /\ lastIpc' = DidIpc("task", sourceWorkspace, name, file, s)
          /\ poll' = nextFile(poll, s.threw)
    /\ UNCHANGED <<ipcWatcherRunning, pollLoops, startCalls, writesLeft>>
    /\ UNCHANGED <<queueVars, hostVars>>

\* the task files are done; the loop over the workspaces goes on (134, 275)
NextWorkspace ==
    /\ poll.phase = "tasks"
    /\ poll.files = <<>>
    /\ poll' = turnTo(Tail(poll.workspaces))
    /\ UNCHANGED <<ipcWatcherRunning, pollLoops, startCalls, ipcDirs, errorsDir, registeredGroups, tasks, sent,
                   ipcLog, taskSeq, writesLeft, lastIpc>>
    /\ UNCHANGED <<queueVars, hostVars>>

InitIpc(writes) ==
    /\ ipcWatcherRunning = FALSE
    /\ pollLoops = 0
    /\ startCalls = 0
    /\ poll = [phase |-> "off", workspaces |-> <<>>, files |-> <<>>]
    /\ ipcDirs = [w \in IpcWorkspaces |-> [messages |-> {}, tasks |-> {}]]
    /\ errorsDir = {}
    /\ registeredGroups = [j \in Jids |-> resolveFolder(j)]
    /\ tasks = {StoredTask("task-wa", "wa", "a1"), StoredTask("task-wb", "wb", "b1")}
    /\ sent = <<>>
    /\ ipcLog = <<>>
    /\ taskSeq = 1
    /\ writesLeft = writes
    /\ lastIpc = DidIpc("", "", "", NoFile, IpcState)

(***************************************************************************)
(* The host's message runs (index.ts): processGroupMessages, the streaming *)
(* callback it hands to runAgent, and the message loop that pipes new      *)
(* messages to a running sandbox.                                          *)
(***************************************************************************)
MaxMessages == 2
MaxResults == 2

\* the chats that receive messages: a1 (workspace wa, no trigger required),
\* b1 (workspace wb) and c1 (not registered)
RunChats == {"a1", "b1", "c1"}

\* group.requiresTrigger !== false (138, 357); no chat here is the main group's
needsTrigger(workspace) == workspace # "wa"

NewMessage(jid, trigger) == [chat_jid |-> jid, trigger |-> trigger]

\* getMessagesSince: the timestamps of the chat's messages after the cursor
getMessagesSince(store, chatJid, since) ==
    SelectSeq([i \in 1..Len(store) |-> i],
              LAMBDA t : t > since /\ store[t].chat_jid = chatJid)

\* pattern.test(m.content.trim()) || m.is_reply_to_bot for one of the messages
hasTrigger(store, timestamps) ==
    \E i \in 1..Len(timestamps) : store[timestamps[i]].trigger

IdleRun == [pc |-> "idle", previousCursor |-> 0, hadError |-> FALSE,
            outputSentToUser |-> FALSE, idleTimer |-> FALSE,
            results |-> 0, delivered |-> 0, cursorAtStart |-> 0]

\* what a step did with a chat's messages: how is "prompt" (the prompt of a run
\* that starts), "piped" (a follow-up input the sandbox took), "stale" (skipped
\* by the startup recovery) or "" (nothing)
Handed(how, timestamps) == [how |-> how, messages |-> timestamps]
NothingHanded == [j \in RunChats |-> Handed("", <<>>)]

Returned(jid, how, value, notice, error) ==
    [jid |-> jid, how |-> how, returned |-> value, notice |-> notice, error |-> error]

\* the channel stores an inbound message (523)
StoreMessage(jid, trigger) ==
    /\ Len(storedMessages) < MaxMessages
    /\ storedMessages' = Append(storedMessages, NewMessage(jid, trigger))
    /\ handed' = NothingHanded
    /\ UNCHANGED <<lastTimestamp, lastAgentTimestamp, agentRuns, lastRun>>
    /\ UNCHANGED <<queueVars, ipcVars, containerVars, mountVars, pathVars, apiVars>>

\* processGroupMessages up to the call of runAgent (123-194): it returns
\* true at once when there is nothing to do, and otherwise advances the
\* cursor and keeps the old one
ProcessGroupMessagesStarts(chatJid) ==
    /\ agentRuns[chatJid].pc = "idle"
    /\ LET group == groupOf(registeredGroups, chatJid)
           sinceTimestamp == lastAgentTimestamp[chatJid]
           missedMessages == getMessagesSince(storedMessages, chatJid, sinceTimestamp)
       IN IF \/ group = Null
             \/ missedMessages = <<>>
             \/ needsTrigger(group) /\ ~hasTrigger(storedMessages, missedMessages)
          THEN /\ lastRun' = Returned(chatJid, "nothing to do", TRUE, FALSE, FALSE)
               /\ handed' = NothingHanded
               /\ UNCHANGED <<lastAgentTimestamp, agentRuns>>
          ELSE /\ handed' = [NothingHanded EXCEPT
                                ![chatJid] = Handed("prompt", missedMessages)]
               /\ lastAgentTimestamp' =
                     [lastAgentTimestamp EXCEPT
                         ![chatJid] = missedMessages[Len(missedMessages)]]
               /\ agentRuns' = [agentRuns EXCEPT
                                   ![chatJid] = [IdleRun EXCEPT
                                                    !.pc = "running",
                                                    !.previousCursor = sinceTimestamp,
                                                    !.cursorAtStart =
                                                       lastAgentTimestamp[chatJid]]]
               /\ UNCHANGED lastRun
    /\ UNCHANGED <<storedMessages, lastTimestamp>>
    /\ UNCHANGED <<queueVars, ipcVars, containerVars, mountVars, pathVars, apiVars>>

\* the results the sandbox streams: no text (a session update), a text, or a
\* text that is internal throughout
Results == [result : {Null, "text", "<internal>x</internal>"}, status : {"success", "error"}]

\* stripInternalTags and formatOutbound (router.ts 19-27)
formatOutbound(rawText) == IF rawText = "<internal>x</internal>" THEN "" ELSE rawText

\* the streaming callback (194-211); fate is that of channel.sendMessage, whose
\* rejection ends the callback
onOutput(run, result, fate) ==
    LET text == formatOutbound(result.result)
        attempted == result.result # Null /\ text # ""
        sentRun == IF attempted
                   THEN [run EXCEPT !.outputSentToUser = TRUE, !.delivered = @ + 1]
                   ELSE run
        timed == IF result.result # Null THEN [sentRun EXCEPT !.idleTimer = TRUE]
                 ELSE sentRun
    IN IF attempted /\ fate = "throw" THEN run
       ELSE IF result.status = "error" THEN [timed EXCEPT !.hadError = TRUE]
       ELSE timed

OnOutput(chatJid, result, fate) ==
    /\ agentRuns[chatJid].pc = "running"
    /\ agentRuns[chatJid].results < MaxResults
    /\ agentRuns' = [agentRuns EXCEPT
                        ![chatJid] = [onOutput(@, result, fate) EXCEPT !.results = @ + 1]]
    /\ handed' = NothingHanded
    /\ UNCHANGED <<storedMessages, lastTimestamp, lastAgentTimestamp, lastRun>>
    /\ UNCHANGED <<queueVars, ipcVars, containerVars, mountVars, pathVars, apiVars>>

\* the idle timer (183-189) fires: queue.closeStdin finds no active run in the
\* scheduler of this specification and returns
IdleTimerFires(chatJid) ==
    /\ agentRuns[chatJid].pc = "running"
    /\ agentRuns[chatJid].idleTimer
    /\ agentRuns' = [agentRuns EXCEPT ![chatJid].idleTimer = FALSE]
    /\ handed' = NothingHanded
    /\ UNCHANGED <<storedMessages, lastTimestamp, lastAgentTimestamp, lastRun>>
    /\ UNCHANGED <<queueVars, ipcVars, containerVars, mountVars, pathVars, apiVars>>

\* processGroupMessages after runAgent with the cursor rolled back to the
\* empty timestamp
processGroupMessagesEnds_RollsBackToStart(run, cursor, output) ==
    IF output = "error" \/ run.hadError
    THEN IF run.outputSentToUser
         THEN [cursor |-> cursor, notice |-> FALSE, returned |-> TRUE]
         ELSE [cursor |-> 0, notice |-> TRUE, returned |-> FALSE]
    ELSE [cursor |-> cursor, notice |-> FALSE, returned |-> TRUE]

\* processGroupMessages after runAgent with the cursor rolled back whatever
\* was sent
processGroupMessagesEnds_AlwaysRollsBack(run, cursor, output) ==
    IF output = "error" \/ run.hadError
    THEN [cursor |-> run.previousCursor, notice |-> TRUE, returned |-> FALSE]
    ELSE [cursor |-> cursor, notice |-> FALSE, returned |-> TRUE]

\* processGroupMessages after runAgent (216-232): the cursor it leaves, whether
\* it sends the error notice, and what it returns
processGroupMessagesEnds(run, cursor, output) ==
    IF output = "error" \/ run.hadError
    THEN IF run.outputSentToUser
         THEN [cursor |-> cursor, notice |-> FALSE, returned |-> TRUE]
         ELSE [cursor |-> run.previousCursor, notice |-> TRUE, returned |-> FALSE]
    ELSE [cursor |-> cursor, notice |-> FALSE, returned |-> TRUE]

\* runAgent resolves to output (235-315) and processGroupMessages returns
RunAgentEnds(chatJid, output) ==
    /\ agentRuns[chatJid].pc = "running"
    /\ LET run == agentRuns[chatJid]
           end == processGroupMessagesEnds(run, lastAgentTimestamp[chatJid], output)
       IN /\ lastAgentTimestamp' = [lastAgentTimestamp EXCEPT ![chatJid] = end.cursor]
          /\ lastRun' = Returned(chatJid, "ran", end.returned, end.notice,
                                 output = "error" \/ run.hadError)
    /\ agentRuns' = [agentRuns EXCEPT ![chatJid] = IdleRun]
    /\ handed' = NothingHanded
    /\ UNCHANGED <<storedMessages, lastTimestamp>>
    /\ UNCHANGED <<queueVars, ipcVars, containerVars, mountVars, pathVars, apiVars>>

\* the cursor of a pass that moves whether or not the sandbox took the messages
pipedCursor_AdvancesUnsent(store, seen, cursors, piped, chatJid) ==
    LET group == groupOf(registeredGroups, chatJid)
        groupMessages == getMessagesSince(store, chatJid, seen)
        allPending == getMessagesSince(store, chatJid, cursors[chatJid])
        messagesToSend == IF allPending # <<>> THEN allPending ELSE groupMessages
    IN IF \/ groupMessages = <<>>
          \/ group = Null
          \/ needsTrigger(group) /\ ~hasTrigger(store, groupMessages)
       THEN cursors[chatJid]
       ELSE messagesToSend[Len(messagesToSend)]

\* one pass of the message loop with new messages (326-411): the chats in
\* piped are those whose sandbox took the messages (queue.sendMessage, 384),
\* and their cursor moves to the last message sent
pipedCursor(store, seen, cursors, piped, chatJid) ==
    LET group == groupOf(registeredGroups, chatJid)
        groupMessages == getMessagesSince(store, chatJid, seen)
        allPending == getMessagesSince(store, chatJid, cursors[chatJid])
        messagesToSend == IF allPending # <<>> THEN allPending ELSE groupMessages
    IN IF \/ groupMessages = <<>>
          \/ group = Null
          \/ needsTrigger(group) /\ ~hasTrigger(store, groupMessages)
          \/ chatJid \notin piped
       THEN cursors[chatJid]
       ELSE messagesToSend[Len(messagesToSend)]

\* the messages of the pass that queue.sendMessage took for the chat (372-384)
pipedMessages(store, seen, cursors, piped, chatJid) ==
    LET group == groupOf(registeredGroups, chatJid)
        groupMessages == getMessagesSince(store, chatJid, seen)
        allPending == getMessagesSince(store, chatJid, cursors[chatJid])
    IN IF \/ groupMessages = <<>>
          \/ group = Null
          \/ needsTrigger(group) /\ ~hasTrigger(store, groupMessages)
          \/ chatJid \notin piped
       THEN <<>>
       ELSE IF allPending # <<>> THEN allPending ELSE groupMessages

MessageLoopPolls(piped) ==
    /\ Len(storedMessages) > lastTimestamp
    /\ \A j \in piped : agentRuns[j].pc = "running"
    /\ lastTimestamp' = Len(storedMessages)
    /\ lastAgentTimestamp' =
          [j \in RunChats |->
              pipedCursor(storedMessages, lastTimestamp, lastAgentTimestamp, piped, j)]
    /\ handed' =
          [j \in RunChats |->
              LET took == pipedMessages(storedMessages, lastTimestamp,
                                        lastAgentTimestamp, piped, j)
              IN IF took = <<>> THEN Handed("", <<>>) ELSE Handed("piped", took)]
    /\ UNCHANGED <<storedMessages, agentRuns, lastRun>>
    /\ UNCHANGED <<queueVars, ipcVars, containerVars, mountVars, pathVars, apiVars>>

\* the scheduler a starting host constructs (group-queue.ts 59-65); the input
\* directories are on disk and stay
FreshQueue ==
    [groups |-> [k \in Keys |-> InitialGroupState], activeCount |-> 0,
     waitingGroups |-> <<>>, running |-> EmptyBag, timers |-> EmptyBag,
     inputDir |-> inputDir, started |-> <<>>, scheduled |-> <<>>, taken |-> <<>>,
     closed |-> <<>>]

\* the registered chats as Object.entries (425) lists them
RecoveryOrder == <<"a1", "b1", "c1">>

\* the body of the loop of recoverPendingMessages for one chat (426-457):
\* cutoff is the timestamp the recovery age of the chat's group reaches back to
recoverChat(store, cursors, cutoff, chatJid) ==
    LET sinceTimestamp == cursors[chatJid]
        pending == getMessagesSince(store, chatJid, sinceTimestamp)
        recent == SelectSeq(pending, LAMBDA t : t >= cutoff)
        stale == SelectSeq(pending, LAMBDA t : t < cutoff)
    IN [cursor |-> IF Len(recent) < Len(pending) /\ Len(stale) > 0
                   THEN stale[Len(stale)]
                   ELSE cursors[chatJid],
        stale |-> IF Len(recent) < Len(pending) THEN stale ELSE <<>>,
        enqueue |-> Len(recent) > 0]

\* the calls of queue.enqueueMessageCheck (455) the loop makes, in its order
RECURSIVE recoveryEnqueues(_, _, _)
recoveryEnqueues(q, chats, enqueue) ==
    IF chats = <<>> THEN q
    ELSE recoveryEnqueues(IF enqueue[Head(chats)]
                          THEN enqueueMessageCheck(q, Head(chats)) ELSE q,
                          Tail(chats), enqueue)

\* the host starts again (main, 500-579): the cursors are loaded as they were
\* saved, the runs of the process before are gone, the scheduler is new and has
\* its processMessagesFn (577), and recoverPendingMessages (422-459) runs
RecoverPendingMessages(cutoff) ==
    /\ processMessagesFn # Null
    /\ LET chats == {j \in RunChats : groupOf(registeredGroups, j) # Null}
           rec == [j \in RunChats |->
                      IF j \in chats
                      THEN recoverChat(storedMessages, lastAgentTimestamp, cutoff[j], j)
                      ELSE [cursor |-> lastAgentTimestamp[j], stale |-> <<>>,
                            enqueue |-> FALSE]]
           q == recoveryEnqueues(FreshQueue, RecoveryOrder,
                                 [j \in RunChats |-> rec[j].enqueue])
       IN /\ lastAgentTimestamp' = [j \in RunChats |-> rec[j].cursor]
          /\ handed' = [j \in RunChats |->
                           IF rec[j].stale # <<>> THEN Handed("stale", rec[j].stale)
                           ELSE Handed("", <<>>)]
          /\ Commit(q)
          /\ last' = Did("recoverPendingMessages", Null, "void", q, {})
    /\ agentRuns' = [j \in RunChats |-> IdleRun]
    /\ lastRun' = Returned("", "", TRUE, FALSE, FALSE)
    /\ streak' = [k \in Keys |-> 0]
    /\ abandoned' = [k \in Keys |-> "no"]
    /\ UNCHANGED <<processMessagesFn, shuttingDown, callsLeft>>
    /\ UNCHANGED <<storedMessages, lastTimestamp>>
    /\ UNCHANGED <<ipcVars, containerVars, mountVars, pathVars, apiVars>>

InitRuns ==
    /\ storedMessages = <<>>
    /\ lastTimestamp = 0
    /\ lastAgentTimestamp = [j \in RunChats |-> 0]
    /\ agentRuns = [j \in RunChats |-> IdleRun]
    /\ lastRun = Returned("", "", TRUE, FALSE, FALSE)
    /\ handed = NothingHanded

(***************************************************************************)
(* A sandbox run (container-runner.ts, of which only the tests are at      *)
(* hand): the payloads the process writes between the output markers, the  *)
(* hard timeout, the exit of the process and the one outcome the run       *)
(* resolves to.                                                            *)
(***************************************************************************)
MaxPayloads == 3

\* what the process writes between a start and an end marker: a result with
\* a session, a session update without result, a result without session, an
\* error report, or text that is no JSON
ContainerOutput(valid, status, result, newSessionId) ==
    [valid |-> valid, status |-> status, result |-> result, newSessionId |-> newSessionId]

Payloads ==
    {ContainerOutput(TRUE, "success", "text", "session-1"),
     ContainerOutput(TRUE, "success", Null, "session-2"),
     ContainerOutput(TRUE, "success", "text", Null),
     ContainerOutput(TRUE, "error", Null, Null),
     ContainerOutput(FALSE, "", Null, Null)}

ExitCodes == {0, 1, 137}

NotStarted == [pc |-> "idle", timedOut |-> FALSE, hadStreamingOutput |-> FALSE,
               newSessionId |-> Null, payloads |-> 0]

\* runContainerAgent starts the process
RunContainerAgent ==
    /\ container.pc = "idle"
    /\ container' = [NotStarted EXCEPT !.pc = "running"]
    /\ UNCHANGED <<onOutputCalls, runOutcomes>>
    /\ UNCHANGED <<queueVars, ipcVars, runVars, mountVars, pathVars, apiVars>>

\* a complete payload between the markers arrives: one that parses is
\* forwarded to onOutput and its session identifier, if any, is kept
StdoutPayload(payload) ==
    /\ container.pc = "running"
    /\ container.payloads < MaxPayloads
    /\ IF payload.valid
       THEN /\ container' = [container EXCEPT
                                !.payloads = @ + 1,
                                !.hadStreamingOutput = TRUE,
                                !.newSessionId = IF payload.newSessionId # Null
                                                 THEN payload.newSessionId ELSE @]
            /\ onOutputCalls' = Append(onOutputCalls, payload)
       ELSE /\ container' = [container EXCEPT !.payloads = @ + 1]
            /\ UNCHANGED onOutputCalls
    /\ UNCHANGED runOutcomes
    /\ UNCHANGED <<queueVars, ipcVars, runVars, mountVars, pathVars, apiVars>>

\* the hard limit is reached: the runtime is asked to stop the sandbox
HardTimeout ==
    /\ container.pc = "running"
    /\ ~container.timedOut
    /\ container' = [container EXCEPT !.timedOut = TRUE]
    /\ UNCHANGED <<onOutputCalls, runOutcomes>>
    /\ UNCHANGED <<queueVars, ipcVars, runVars, mountVars, pathVars, apiVars>>

Outcome(status, newSessionId, error) ==
    [status |-> status, newSessionId |-> newSessionId, error |-> error]

\* the resolution on exit with a timeout taken for an error whatever was
\* streamed
resolveOnClose_TimeoutIsError(run, code) ==
    IF run.timedOut THEN Outcome("error", Null, "timed out")
    ELSE IF run.hadStreamingOutput THEN Outcome("success", run.newSessionId, "")
    ELSE Outcome("error", Null, "exited")

\* the resolution on exit of the process
resolveOnClose(run, code) ==
    IF run.hadStreamingOutput THEN Outcome("success", run.newSessionId, "")
    ELSE IF run.timedOut THEN Outcome("error", Null, "timed out")
    ELSE Outcome("error", Null, "exited")

\* the process exits with the code, of itself or stopped, and the run resolves
ProcessCloses(code) ==
    /\ container.pc = "running"
    /\ container' = [container EXCEPT !.pc = "resolved"]
    /\ runOutcomes' = Append(runOutcomes, resolveOnClose(container, code))
    /\ UNCHANGED onOutputCalls
    /\ UNCHANGED <<queueVars, ipcVars, runVars, mountVars, pathVars, apiVars>>

InitContainer ==
    /\ container = NotStarted
    /\ onOutputCalls = <<>>
    /\ runOutcomes = <<>>

(***************************************************************************)
(* The mount security gate (mount-security.ts, of which only the tests are *)
(* at hand): the allowlist document, the host's file system with its       *)
(* symbolic links, and validateMount.                                      *)
(***************************************************************************)

\* the host's directories and files, by real path
RealPaths ==
    {<<"work">>, <<"work", "project">>, <<"work", "project", "docs">>,
     <<"work", ".ssh">>, <<"work", ".ssh", "id_rsa">>, <<"work", "Credentials">>,
     <<"other">>, <<"other", "data">>}

\* the symbolic links and what they point to
LinkPaths == {<<"work", "innocent-link">>, <<"work", "out">>, <<"other", "in">>}
SymbolicLinks ==
    [p \in LinkPaths |->
        CASE p = <<"work", "innocent-link">> -> <<"work", ".ssh">>
          [] p = <<"work", "out">> -> <<"other", "data">>
          [] OTHER -> <<"work", "project">>]

\* fs.realpathSync: the path with every symbolic link on the way followed
RECURSIVE followLinks(_, _)
followLinks(done, rest) ==
    IF rest = <<>> THEN done
    ELSE LET next == Append(done, Head(rest))
         IN followLinks(IF next \in LinkPaths THEN SymbolicLinks[next] ELSE next,
                        Tail(rest))

realpathSync(p) == followLinks(<<>>, p)

\* fs.existsSync
existsSync(p) == realpathSync(p) \in RealPaths

\* the blocked patterns every allowlist contains
DEFAULT_BLOCKED_PATTERNS == {".ssh", ".env", "credentials"}

AllowedRoot(path, allowReadWrite) == [path |-> path, allowReadWrite |-> allowReadWrite]

MountAllowlist(allowedRoots, blockedPatterns, nonMainReadOnly) ==
    [allowedRoots |-> allowedRoots, blockedPatterns |-> blockedPatterns,
     nonMainReadOnly |-> nonMainReadOnly]

\* what may lie at MOUNT_ALLOWLIST_PATH: nothing, text that is no JSON, or a
\* document
NoAllowlistFile == [kind |-> "missing", document |-> MountAllowlist(<<>>, {}, TRUE)]
AllowlistFiles ==
    {NoAllowlistFile, [NoAllowlistFile EXCEPT !.kind = "malformed"]}
    \cup {[kind |-> "document", document |-> MountAllowlist(roots, {}, flag)] :
             roots \in {<<>>,
                        <<AllowedRoot(<<"work">>, TRUE)>>,
                        <<AllowedRoot(<<"work">>, FALSE)>>,
                        <<AllowedRoot(<<"work">>, FALSE),
                          AllowedRoot(<<"work", "project">>, TRUE)>>},
             flag \in BOOLEAN}

\* loadMountAllowlist: the document with the default patterns merged in, or
\* Null; ok = FALSE stands for null
loadMountAllowlist(file) ==
    IF file.kind = "document"
    THEN [ok |-> TRUE,
          document |-> [file.document EXCEPT
                           !.blockedPatterns = DEFAULT_BLOCKED_PATTERNS \cup @]]
    ELSE [ok |-> FALSE, document |-> file.document]

\* a segment equals a blocked pattern, letter case aside
matchesBlockedPattern(realPath, blockedPatterns) ==
    \E i \in 1..Len(realPath) : \E pattern \in blockedPatterns :
       toLowerCase(chars(realPath[i])) = toLowerCase(chars(pattern))

\* the allowed roots under which the real path lies, or which it equals
rootsOver(realPath, allowedRoots) ==
    {i \in 1..Len(allowedRoots) :
        existsSync(allowedRoots[i].path)
        /\ startsWith(realPath, realpathSync(allowedRoots[i].path))}

\* the longest of them
findAllowedRoot(realPath, allowedRoots) ==
    LET over == rootsOver(realPath, allowedRoots)
    IN allowedRoots[CHOOSE i \in over :
                       \A k \in over : Len(realpathSync(allowedRoots[i].path))
                                          >= Len(realpathSync(allowedRoots[k].path))]

MountRequest(hostPath, containerPath, readonly) ==
    [hostPath |-> hostPath, containerPath |-> containerPath, readonly |-> readonly]

\* a container path: given or not, absolute or relative, and its segments
ContainerPath(given, absolute, segments) ==
    [given |-> given, absolute |-> absolute, segments |-> segments]

\* the container path asked for, or the last segment of the host path
resolvedContainerPath(request) ==
    IF request.containerPath.given THEN request.containerPath
    ELSE ContainerPath(TRUE, FALSE, <<request.hostPath[Len(request.hostPath)]>>)

Decision(allowed, reason, realHostPath, containerPath, effectiveReadonly) ==
    [allowed |-> allowed, reason |-> reason, realHostPath |-> realHostPath,
     resolvedContainerPath |-> containerPath, effectiveReadonly |-> effectiveReadonly]

Denied(reason) == Decision(FALSE, reason, <<>>, <<>>, TRUE)

\* the effective read-only flag without the root's say
effectiveReadonly_IgnoresRoot(request, root, isMain, allowlist) ==
    \/ request.readonly
    \/ ~isMain /\ allowlist.nonMainReadOnly

\* the effective read-only flag of an allowed mount
effectiveReadonly(request, root, isMain, allowlist) ==
    \/ request.readonly
    \/ ~root.allowReadWrite
    \/ ~isMain /\ allowlist.nonMainReadOnly

\* the path tested against patterns and roots, taken as declared
checkedPath_AsDeclared(hostPath) == hostPath

\* the path tested against patterns and roots: the real one
checkedPath(hostPath) == realpathSync(hostPath)

\* validateMount on the loaded allowlist
validateMount(loaded, request, isMain) ==
    LET allowlist == loaded.document
        containerPath == resolvedContainerPath(request)
        realPath == checkedPath(request.hostPath)
    IN IF ~loaded.ok THEN Denied("No mount allowlist")
       ELSE IF containerPath.absolute THEN Denied("must be relative")
       ELSE IF ".." \in Range(containerPath.segments) THEN Denied("..")
       ELSE IF ~existsSync(request.hostPath) THEN Denied("does not exist")
       ELSE IF matchesBlockedPattern(realPath, allowlist.blockedPatterns)
       THEN Denied("blocked pattern")
       ELSE IF rootsOver(realPath, allowlist.allowedRoots) = {}
       THEN Denied("not under any allowed root")
       ELSE Decision(TRUE, "", realPath, containerPath.segments,
                     effectiveReadonly(request,
                                       findAllowedRoot(realPath, allowlist.allowedRoots),
                                       isMain, allowlist))

\* the host paths and container paths that mounts are asked for
HostPaths == RealPaths \cup LinkPaths \cup {<<"work", "innocent-link", "id_rsa">>,
                                            <<"nonexistent">>}
ContainerPaths ==
    {ContainerPath(FALSE, FALSE, <<>>), ContainerPath(TRUE, FALSE, <<"data">>),
     ContainerPath(TRUE, FALSE, <<"..", "escape">>),
     ContainerPath(TRUE, TRUE, <<"etc", "shadow">>)}
MountRequests ==
    {MountRequest(p, c, r) : p \in HostPaths, c \in ContainerPaths, r \in BOOLEAN}

NoMountCall == [called |-> FALSE, request |-> MountRequest(<<>>, ContainerPath(FALSE, FALSE, <<>>), TRUE),
                isMain |-> FALSE, result |-> Denied("")]

\* a call of validateMount: the allowlist is loaded at the first call and
\* kept, and the decision is made on it
ValidateMount(request, isMain) ==
    /\ LET loaded == IF cachedAllowlist.loaded THEN cachedAllowlist.value
                     ELSE loadMountAllowlist(allowlistFile)
       IN /\ cachedAllowlist' = [loaded |-> TRUE, value |-> loaded]
          /\ mountCall' = [called |-> TRUE, request |-> request, isMain |-> isMain,
                           result |-> validateMount(loaded, request, isMain)]
    /\ UNCHANGED allowlistFile
    /\ UNCHANGED <<queueVars, ipcVars, runVars, containerVars, pathVars, apiVars>>

InitMounts(files) ==
    /\ allowlistFile \in files
    /\ cachedAllowlist = [loaded |-> FALSE, value |-> loadMountAllowlist(NoAllowlistFile)]
    /\ mountCall = NoMountCall

(***************************************************************************)
(* Workspace paths (workspace.ts): a name is a sequence of characters, a   *)
(* path a sequence of segments, each a sequence of characters.             *)
(***************************************************************************)

\* a directory given by the names of its segments, each name as one segment
segmentsOf(dir) == [i \in 1..Len(dir) |-> <<dir[i]>>]

\* the segments of a path written with "/" between them: the characters
\* between one "/" (or the start) and the next (or the end)
splitPath(cs) ==
    LET slashes == SelectSeq([i \in 1..Len(cs) |-> i], LAMBDA i : cs[i] = "/")
        cuts == <<0>> \o slashes \o <<Len(cs) + 1>>
    IN [k \in 1..(Len(cuts) - 1) |-> SubSeq(cs, cuts[k] + 1, cuts[k + 1] - 1)]

\* path.resolve(base, target) (34, 41-42): an absolute target replaces the
\* base, ".." drops a segment, "." and empty segments are skipped
RECURSIVE resolveSegments(_, _)
resolveSegments(base, segments) ==
    IF segments = <<>> THEN base
    ELSE IF Head(segments) = <<".", ".">>
    THEN resolveSegments(IF base = <<>> THEN base ELSE SubSeq(base, 1, Len(base) - 1),
                         Tail(segments))
    ELSE IF Head(segments) \in {<<".">>, <<>>} THEN resolveSegments(base, Tail(segments))
    ELSE resolveSegments(Append(base, Head(segments)), Tail(segments))

pathResolve(base, cs) ==
    resolveSegments(IF cs # <<>> /\ Head(cs) = "/" THEN <<>> ELSE base, splitPath(cs))

\* the number of leading segments two paths share
RECURSIVE commonPrefix(_, _)
commonPrefix(p, q) ==
    IF p = <<>> \/ q = <<>> \/ Head(p) # Head(q) THEN 0
    ELSE 1 + commonPrefix(Tail(p), Tail(q))

\* path.relative(from, to) (25): up from `from` to the shared part, then down
pathRelative(from, to) ==
    LET shared == commonPrefix(from, to)
    IN [i \in 1..(Len(from) - shared) |-> <<".", ".">>]
          \o SubSeq(to, shared + 1, Len(to))

\* ensureWithinBase (24-29) throws: the relative path, as text, starts with
\* ".."; it is never absolute
escapesBase(baseDir, resolvedPath) ==
    LET rel == pathRelative(baseDir, resolvedPath)
    IN rel # <<>> /\ Len(rel[1]) >= 2 /\ rel[1][1] = "." /\ rel[1][2] = "."

Resolution(by, threw, path) == [by |-> by, threw |-> threw, path |-> path]

\* assertValidWorkspace, path.resolve and ensureWithinBase under a base (31-44)
resolveUnder(by, baseDir, cs) ==
    IF ~isValidWorkspaceName(cs) THEN Resolution(by, TRUE, <<>>)
    ELSE IF escapesBase(baseDir, pathResolve(baseDir, cs))
    THEN Resolution(by, TRUE, <<>>)
    ELSE Resolution(by, FALSE, pathResolve(baseDir, cs))

\* resolveWorkspacePath (31-36)
resolveWorkspacePath(cs) == resolveUnder("resolveWorkspacePath", segmentsOf(GROUPS_DIR), cs)

\* resolveWorkspaceIpcPath (38-44)
resolveWorkspaceIpcPath(cs) ==
    resolveUnder("resolveWorkspaceIpcPath", pathResolve(segmentsOf(DATA_DIR), <<"ipc">>), cs)

\* the names asked for: every short text over the characters that matter,
\* names at the length limit, the reserved name in every letter case, and the
\* names of the tests
MaxNameLen == 3
NameAlphabet == {"a", "Z", "7", "_", "-", " ", "\t", "/", "\\", "."}
ShortNames == UNION {[1..n -> NameAlphabet] : n \in 0..MaxNameLen}
LongNames == {[i \in 1..n |-> "a"] : n \in {64, 65}}
ReservedSpellings ==
    {[i \in 1..6 |-> IF i \in capitals THEN Upper[CHOOSE k \in 1..26 :
                                                    Lower[k] = <<"g", "l", "o", "b", "a", "l">>[i]]
                     ELSE <<"g", "l", "o", "b", "a", "l">>[i]] :
        capitals \in SUBSET (1..6)}
TestNames ==
    {<<"m", "a", "i", "n">>,
     <<"f", "a", "m", "i", "l", "y", "-", "c", "h", "a", "t">>,
     <<"T", "e", "a", "m", "_", "4", "2">>,
     <<".", ".", "/", ".", ".", "/", "e", "t", "c">>,
     <<"/", "t", "m", "p">>,
     <<"g", "l", "o", "b", "a", "l", "s">>}
WorkspaceNames == ShortNames \cup LongNames \cup ReservedSpellings \cup TestNames

NotResolved == Resolution("", FALSE, <<>>)

ResolveWorkspacePath ==
    /\ resolution = NotResolved
    /\ resolution' = resolveWorkspacePath(workspaceName)
    /\ UNCHANGED workspaceName
    /\ UNCHANGED <<queueVars, ipcVars, runVars, containerVars, mountVars, apiVars>>

ResolveWorkspaceIpcPath ==
    /\ resolution = NotResolved
    /\ resolution' = resolveWorkspaceIpcPath(workspaceName)
    /\ UNCHANGED workspaceName
    /\ UNCHANGED <<queueVars, ipcVars, runVars, containerVars, mountVars, apiVars>>

InitPaths(names) ==
    /\ workspaceName \in names
    /\ resolution = NotResolved

\* the host when it starts
(***************************************************************************)
(* The HTTP API (api.ts): POST /api/message and the bridge from the        *)
(* response emitter to the reply.                                          *)
(***************************************************************************)
\* config.ts is not part of the sources at hand; api.ts imports the name
API_GROUP_FOLDER == "wa"

ApiRequests == {"r1", "r2"}
MaxResponses == 2
ResponseTexts == {"x", "y"}
\* what the body of a request is: JSON with a content string, JSON without,
\* or no JSON
ApiBodies == {"content", "no content", "not json"}

\* the registered chats as Object.keys lists them
JidOrder == <<"a1", "a2", "b1", "c1">>

NoRequest == [pc |-> "none", promise |-> "none", timer |-> FALSE]
Reply(status, body) == [status |-> status, body |-> body]

Api == [requests |-> apiRequests, listeners |-> responseListeners,
        replies |-> apiReplies]

\* findJidForFolder (60-65)
findJidForFolder(registry, folder) ==
    LET found == SelectSeq(JidOrder, LAMBDA j : groupOf(registry, j) = folder)
    IN IF found = <<>> THEN Null ELSE found[1]

\* resolve(text) and the handler's turn after `await responsePromise` (176-178);
\* a promise that has settled stays as it is
resolveResponse(api, r, text) ==
    IF api.requests[r].promise # "pending" THEN api
    ELSE [api EXCEPT !.requests[r].promise = "resolved",
                     !.requests[r].pc = "replied",
                     !.replies[r] = Append(@, Reply(200, text))]

\* reject(new Error('timeout')) and the handler's turn in the catch (179-181)
rejectResponse(api, r) ==
    IF api.requests[r].promise # "pending" THEN api
    ELSE [api EXCEPT !.requests[r].promise = "rejected",
                     !.requests[r].pc = "replied",
                     !.replies[r] = Append(@, Reply(504, "Response timeout"))]

\* onResponse (153-156)
onResponse(api, r, text) ==
    resolveResponse([api EXCEPT !.requests[r].timer = FALSE], r, text)

\* the callback of the timer that leaves the listener registered
responseTimeout_KeepsListener(api, r) ==
    rejectResponse([api EXCEPT !.requests[r].timer = FALSE], r)

\* the callback of the timer (148-151)
responseTimeout(api, r) ==
    rejectResponse([api EXCEPT !.listeners = SelectSeq(@, LAMBDA x : x # r),
                               !.requests[r].timer = FALSE], r)

\* responseEmitter.emit(`response:${jid}`, text): the listeners, registered
\* with once (158), are taken off and called in the order of registration
RECURSIVE callListeners(_, _, _)
callListeners(api, listeners, text) ==
    IF listeners = <<>> THEN api
    ELSE callListeners(onResponse(api, Head(listeners), text), Tail(listeners), text)

emitResponse(api, text) ==
    callListeners([api EXCEPT !.listeners = <<>>], api.listeners, text)

CommitApi(api) ==
    /\ apiRequests' = api.requests
    /\ responseListeners' = api.listeners
    /\ apiReplies' = api.replies

\* the handler of POST /api/message up to `await responsePromise` (104-175)
PostMessage(r, authorized, body) ==
    /\ apiRequests[r].pc = "none"
    /\ LET jid == findJidForFolder(registeredGroups, API_GROUP_FOLDER)
           status == IF ~authorized THEN 401
                     ELSE IF body # "content" THEN 400
                     ELSE IF jid = Null THEN 404 ELSE 0
       IN IF status # 0
          THEN /\ apiRequests' = [apiRequests EXCEPT ![r].pc = "replied"]
               /\ apiReplies' = [apiReplies EXCEPT ![r] = Append(@, Reply(status, "error"))]
               /\ UNCHANGED <<responseListeners, storedMessages, queueVars>>
          ELSE LET accepted == ~sendMessageRefuses(groups[resolveKey(jid)])
                   q == IF accepted THEN sendMessage(Q, jid, "hello", {})
                        ELSE enqueueMessageCheck(Q, jid)
               IN /\ storedMessages' = Append(storedMessages, NewMessage(jid, FALSE))
                  /\ apiRequests' = [apiRequests EXCEPT
                                        ![r] = [pc |-> "awaiting", promise |-> "pending",
                                                timer |-> TRUE]]
                  /\ responseListeners' = Append(responseListeners, r)
                  /\ UNCHANGED apiReplies
                  /\ Commit(q)
                  /\ last' = IF accepted THEN Did("sendMessage", jid, "true", q, {})
                             ELSE Did("enqueueMessageCheck", jid, "void", q, {})
                  /\ abandoned' = IF accepted THEN abandoned
                                  ELSE [abandoned EXCEPT ![resolveKey(jid)] = "no"]
                  /\ UNCHANGED <<processMessagesFn, shuttingDown, callsLeft, streak>>
    /\ UNCHANGED <<heard, emitted>>
    /\ UNCHANGED <<lastTimestamp, lastAgentTimestamp, agentRuns, lastRun, handed>>
    /\ UNCHANGED <<ipcVars, containerVars, mountVars, pathVars>>

\* a response is emitted for the chat of the API's workspace
ResponseEmitted(text) ==
    /\ emitted < MaxResponses
    /\ emitted' = emitted + 1
    /\ CommitApi(emitResponse(Api, text))
    /\ heard' = [r \in ApiRequests |->
                    IF apiRequests[r].pc = "awaiting" THEN Append(heard[r], text)
                    ELSE heard[r]]
    /\ UNCHANGED <<queueVars, ipcVars, runVars, containerVars, mountVars, pathVars>>

\* RESPONSE_TIMEOUT has passed for the request (148-151)
ResponseTimeout(r) ==
    /\ apiRequests[r].timer
    /\ CommitApi(responseTimeout(Api, r))
    /\ UNCHANGED <<heard, emitted>>
    /\ UNCHANGED <<queueVars, ipcVars, runVars, containerVars, mountVars, pathVars>>

InitApi ==
    /\ apiRequests = [r \in ApiRequests |-> NoRequest]
    /\ responseListeners = <<>>
    /\ apiReplies = [r \in ApiRequests |-> <<>>]
    /\ heard = [r \in ApiRequests |-> <<>>]
    /\ emitted = 0

InitHost ==
    /\ InitRuns /\ InitContainer /\ InitMounts({NoAllowlistFile})
    /\ InitPaths({<<"m", "a", "i", "n">>})
    /\ InitApi

(***************************************************************************)
(* Spec: the scheduler under enqueue calls, settled runs, retry timers and *)
(* shutdown.                                                               *)
(***************************************************************************)
Init == InitQueue(MaxCalls) /\ InitIpc(0) /\ InitHost

Next ==
    \/ SetProcessMessagesFn
    \/ \E j \in Jids : EnqueueMessageCheck(j)
    \/ \E j \in Jids, id \in TaskIds : EnqueueTask(j, id)
    \/ \E r \in BagToSet(running), o \in {"true", "false", "throw"} : MessageRunSettles(r, o)
    \/ \E r \in BagToSet(running), o \in {"return", "throw"} : TaskRunSettles(r, o)
    \/ \E t \in BagToSet(timers) : RetryTimerFires(t)
    \/ Shutdown

Spec == Init /\ [][Next]_vars

(***************************************************************************)
(* SpecSandbox: the scheduler with the calls made on behalf of a running   *)
(* sandbox (registerProcess, notifyIdle, closeStdin, sendMessage) for the  *)
(* chats of one workspace, the other tenants competing for the slots; runs *)
(* settle successfully here.                                               *)
(***************************************************************************)
SandboxJids == {"a1", "a2"}

InitSandbox == InitQueue(MaxSandboxCalls) /\ InitIpc(0) /\ InitHost

NextSandbox ==
    \/ SetProcessMessagesFn
    \/ \E j \in Jids : EnqueueMessageCheck(j)
    \/ \E j \in Jids, id \in TaskIds : EnqueueTask(j, id)
    \/ \E r \in BagToSet(running) : MessageRunSettles(r, "true")
    \/ \E r \in BagToSet(running) : TaskRunSettles(r, "return")
    \/ Shutdown
    \/ \E j \in SandboxJids : \E w \in {Null, folderOf(j)} : RegisterProcess(j, w)
    \/ \E k \in Keys : ProcessKilled(k)
    \/ \E j \in SandboxJids : NotifyIdle(j)
    \/ \E j \in SandboxJids : CloseStdin(j)
    \/ \E j \in SandboxJids, text \in Texts, a \in AttachmentArgs : SendMessage(j, text, a)

SpecSandbox == InitSandbox /\ [][NextSandbox]_vars

(***************************************************************************)
(* SpecWaiting: the scheduler with four tenants competing for the slots,   *)
(* so that the waiting list holds more than one of them.                   *)
(***************************************************************************)
InitWaiting == InitQueue(MaxWaitingCalls) /\ InitIpc(0) /\ InitHost

NextWaiting ==
    \/ SetProcessMessagesFn
    \/ \E j \in WaitingJids : EnqueueMessageCheck(j)
    \/ \E j \in WaitingJids : EnqueueTask(j, "t1")
    \/ \E r \in BagToSet(running) : MessageRunSettles(r, "true")
    \/ \E r \in BagToSet(running) : TaskRunSettles(r, "return")

SpecWaiting == InitWaiting /\ [][NextWaiting]_vars

(***************************************************************************)
(* SpecLive: the scheduler where every run ends, shutdown is not called    *)
(* and the message loop keeps calling for as long as it likes.             *)
(***************************************************************************)
LiveJids == {"a1", "b1", "c1"}

InitLive == InitQueue(MaxLiveCalls) /\ InitIpc(0) /\ InitHost

NextLive ==
    \/ SetProcessMessagesFn
    \/ \E j \in LiveJids : MessageLoopEnqueues(j)
    \/ \E j \in LiveJids : EnqueueTask(j, "t1")
    \/ \E r \in BagToSet(running) : MessageRunSettles(r, "true")
    \/ \E r \in BagToSet(running) : TaskRunSettles(r, "return")

LiveKeys == {resolveKey(j) : j \in LiveJids}

\* every run ends: the awaited promise of a tenant's run in flight settles
EveryRunEnds ==
    \A k \in LiveKeys :
       WF_vars(\E r \in BagToSet(running) :
                  r.key = k /\ (MessageRunSettles(r, "true") \/ TaskRunSettles(r, "return")))

SpecLive == InitLive /\ [][NextLive]_vars /\ EveryRunEnds

(***************************************************************************)
(* SpecIpc: the IPC watcher over the files the sandboxes of two workspaces *)
(* drop, the scheduler idle.                                               *)
(***************************************************************************)
InitIpcWatcher == InitQueue(0) /\ InitIpc(MaxIpcFiles) /\ InitHost

NextIpc ==
    \/ StartIpcWatcher
    \/ \E w \in IpcWorkspaces : \E c \in Contents(w, MessageRequests) :
          SandboxWrites(w, "messages", c)
    \/ \E w \in IpcWorkspaces : \E c \in Contents(w, TaskRequests) :
          SandboxWrites(w, "tasks", c)
    \/ PollTimerFires
    \/ \E fate \in Fates : ProcessMessageFile(fate)
    \/ ListTasks
    \/ \E fate \in Fates : ProcessTaskFile(fate)
    \/ NextWorkspace

SpecIpc == InitIpcWatcher /\ [][NextIpc]_vars

\* The pass is one async function: after each await it goes on with the next
\* turn of its loops, whether the awaited call settled or threw (146-275),
\* and the timer it sets at its end fires (277).
WatcherStep ==
    \/ PollTimerFires
    \/ \E fate \in Fates : ProcessMessageFile(fate)
    \/ ListTasks
    \/ \E fate \in Fates : ProcessTaskFile(fate)
    \/ NextWorkspace

WatcherGoesOn == WF_vars(WatcherStep)

\* the watcher with a few files only: a message that is delivered or whose
\* delivery fails, a task request, and files that are no JSON
WatchedMessages == {<<TRUE, Message("a1", "hi")>>, <<FALSE, NoData>>}
WatchedTasks == {<<TRUE, TaskChange("pause_task", "task-wa")>>, <<FALSE, NoData>>}

NextWatcher ==
    \/ StartIpcWatcher
    \/ \E w \in IpcWorkspaces : \E c \in WatchedMessages : SandboxWrites(w, "messages", c)
    \/ \E w \in IpcWorkspaces : \E c \in WatchedTasks : SandboxWrites(w, "tasks", c)
    \/ WatcherStep

SpecWatcher == InitIpcWatcher /\ [][NextWatcher]_vars /\ WatcherGoesOn

(***************************************************************************)
(* SpecRun: the message runs of three chats over the messages that arrive, *)
(* the scheduler and the IPC watcher idle.                                 *)
(***************************************************************************)
InitRun == InitQueue(0) /\ InitIpc(0) /\ InitHost

NextMessageRun ==
    \/ \E j \in {"a1", "b1"}, trigger \in BOOLEAN : StoreMessage(j, trigger)
    \/ \E j \in RunChats : ProcessGroupMessagesStarts(j)
    \/ \E j \in RunChats, result \in Results, fate \in Fates : OnOutput(j, result, fate)
    \/ \E j \in RunChats : IdleTimerFires(j)
    \/ \E j \in RunChats, output \in {"success", "error"} : RunAgentEnds(j, output)
    \/ \E piped \in SUBSET RunChats : MessageLoopPolls(piped)

SpecRun == InitRun /\ [][NextMessageRun]_vars

(***************************************************************************)
(* SpecRecovery: the message runs of SpecRun on a host that may stop and   *)
(* start again at any moment, with the startup recovery run at each start. *)
(***************************************************************************)
\* per chat, the timestamp its group's recovery age reaches back to: the groups
\* here have the default recovery age (423), so the timestamp is one
Cutoffs == {[j \in RunChats |-> c] : c \in 1..(MaxMessages + 1)}

\* the results streamed here: a text, with either status
RecoveryResults == [result : {"text"}, status : {"success", "error"}]

NextRecovery ==
    \/ SetProcessMessagesFn
    \/ \E cutoff \in Cutoffs : RecoverPendingMessages(cutoff)
    \/ \E j \in {"a1", "b1"}, trigger \in BOOLEAN : StoreMessage(j, trigger)
    \/ \E j \in RunChats : ProcessGroupMessagesStarts(j)
    \/ \E j \in RunChats, result \in RecoveryResults : OnOutput(j, result, "ok")
    \/ \E j \in RunChats, output \in {"success", "error"} : RunAgentEnds(j, output)
    \/ \E piped \in SUBSET RunChats : MessageLoopPolls(piped)

SpecRecovery == InitRun /\ [][NextRecovery]_vars

(***************************************************************************)
(* SpecApi: two requests to POST /api/message, the responses emitted for   *)
(* the chat and the sandbox run of its workspace.  A timer that is pending *)
(* fires.                                                                  *)
(***************************************************************************)
NextApi ==
    \/ SetProcessMessagesFn
    \/ \E r \in ApiRequests, authorized \in BOOLEAN, body \in ApiBodies :
          PostMessage(r, authorized, body)
    \/ \E text \in ResponseTexts : ResponseEmitted(text)
    \/ \E r \in ApiRequests : ResponseTimeout(r)
    \/ RegisterProcess("a1", folderOf("a1"))
    \/ \E run \in BagToSet(running) : MessageRunSettles(run, "true")

TimersFire == \A r \in ApiRequests : WF_vars(ResponseTimeout(r))

SpecApi == InitRun /\ [][NextApi]_vars /\ TimersFire

(***************************************************************************)
(* SpecContainer: one sandbox run over the payloads its process writes.    *)
(***************************************************************************)
NextContainer ==
    \/ RunContainerAgent
    \/ \E payload \in Payloads : StdoutPayload(payload)
    \/ HardTimeout
    \/ \E code \in ExitCodes : ProcessCloses(code)

SpecContainer == InitRun /\ [][NextContainer]_vars

(***************************************************************************)
(* SpecMounts: calls of validateMount under each allowlist file.           *)
(***************************************************************************)
InitMountGate ==
    /\ InitQueue(0) /\ InitIpc(0) /\ InitRuns /\ InitContainer /\ InitApi
    /\ InitMounts(AllowlistFiles) /\ InitPaths({<<"m", "a", "i", "n">>})

NextMounts == \E request \in MountRequests, isMain \in BOOLEAN : ValidateMount(request, isMain)

SpecMounts == InitMountGate /\ [][NextMounts]_vars

(***************************************************************************)
(* SpecPaths: the two path resolutions on each workspace name.             *)
(***************************************************************************)
InitWorkspacePaths ==
    /\ InitQueue(0) /\ InitIpc(0) /\ InitRuns /\ InitContainer /\ InitApi
    /\ InitMounts({NoAllowlistFile}) /\ InitPaths(WorkspaceNames)

NextPaths == ResolveWorkspacePath \/ ResolveWorkspaceIpcPath

SpecPaths == InitWorkspacePaths /\ [][NextPaths]_vars

(***************************************************************************)
(* The scheduler's claims                                                  *)
(***************************************************************************)

\* C1: under every interleaving of enqueue calls, settled runs (success,
\* failure, exception), retry timers and drains, each tenant key has at most
\* one run (message run or task run) in flight.
C1_OneRunPerTenant ==
    \A k \in Keys : RunsOf(running, k) \in {0, 1}

\* C1 witness: two tenants run at the same time, one of them with a message
\* check that arrived during its run and was queued behind it.
C1_Witness ==
    \E k1, k2 \in Keys :
        /\ k1 # k2
        /\ RunsOf(running, k1) = 1 /\ RunsOf(running, k2) = 1
        /\ groups[k1].pendingMessages
        /\ last.op = "enqueueMessageCheck" /\ resolveKey(last.arg) = k1

\* C2: the global active count stays within 0..MAX_CONCURRENT_CONTAINERS, and
\* so does the number of runs in flight.
C2_ActiveCountWithinCap ==
    /\ activeCount \in 0..MAX_CONCURRENT_CONTAINERS
    /\ BagCardinality(running) <= MAX_CONCURRENT_CONTAINERS

\* C2 witness: the cap is reached and an enqueue for a further tenant has been
\* deferred to the waiting list instead of being started.
C2_Witness ==
    /\ activeCount = MAX_CONCURRENT_CONTAINERS
    /\ Len(waitingGroups) > 0
    /\ last.op \in {"enqueueMessageCheck", "enqueueTask", "retryTimer"}
    /\ last.started = <<>>
    /\ waitingGroups[Len(waitingGroups)] = resolveKey(last.arg)

FailedRun == {"runForGroup:false", "runForGroup:throw"}
SettledRun == FailedRun \cup {"runForGroup:true", "runTask:return", "runTask:throw"}

\* C4: the n-th failed message run of a tenant in a row (n = 1..5, no
\* successful message run in between) schedules exactly one retry, with delay
\* 5000 * 2^(n-1) ms, longer than the one before; the sixth schedules none.
C4_RetryBackoff ==
    last.op \in FailedRun =>
        LET n == streak[last.arg] IN
        /\ n \in 1..5 =>
              /\ Len(last.scheduled) = 1
              /\ last.scheduled[1].delayMs = 5000 * Pow2(n - 1)
              /\ resolveKey(last.scheduled[1].jid) = last.arg
              /\ BagIn(last.scheduled[1], timers)
              /\ n > 1 => last.scheduled[1].delayMs > 5000 * Pow2(n - 2)
        /\ n = 6 => last.scheduled = <<>>

\* C4 witness: a tenant's sixth failure in a row has just been handled and no
\* retry was scheduled for it.
C4_Witness ==
    /\ last.op \in FailedRun
    /\ streak[last.arg] = 6
    /\ last.scheduled = <<>>
    /\ TimersOf(timers, last.arg) = {}

\* C5 as stated: after a failure has taken a tenant's retry counter beyond the
\* ceiling, no run of the tenant is in flight until an enqueue call from
\* outside is made for it.
C5_Original ==
    \A k \in Keys : abandoned[k] # "no" => RunsOf(running, k) = 0 /\ ~groups[k].active

\* C5 as amended: the failure that takes the retry counter beyond the ceiling
\* resets it to 0 and schedules no retry; and if the tenant then has no
\* pending task, no pending message check and no earlier retry callback
\* outstanding, no run of the tenant starts until an enqueue call from outside
\* is made for it.
C5_Amended ==
    [][\A k \in Keys :
          /\ (/\ last'.op \in FailedRun
              /\ last'.arg = k
              /\ groups[k].retryCount + 1 > MAX_RETRIES)
             => /\ groups'[k].retryCount = 0
                /\ last'.scheduled = <<>>
                /\ TimersOf(timers', k) = TimersOf(timers, k)
          /\ abandoned'[k] = "quiet"
             => /\ RunsOf(running', k) = 0
                /\ ~groups'[k].active
                /\ groups'[k].retryCount = 0
      ]_vars

\* C5 witness: a tenant has been abandoned with nothing outstanding, and it
\* is at rest.
C5_Witness ==
    /\ last.op \in FailedRun
    /\ abandoned[last.arg] = "quiet"
    /\ streak[last.arg] = 6
    /\ ~groups[last.arg].active

\* C6: once shutdown() has been called, no handler starts a run: enqueue
\* calls and retry timers start nothing, and a settling run neither takes the
\* tenant's pending work nor takes a tenant from the waiting list.
C6_NoStartAfterShutdown ==
    [][shuttingDown =>
          /\ last'.started = <<>>
          /\ last'.taken = <<>>
          /\ waitingGroups' = waitingGroups
          /\ \A k \in Keys :
                /\ RunsOf(running', k) <= RunsOf(running, k)
                /\ groups'[k].active => groups[k].active
                /\ groups'[k].pendingTasks = groups[k].pendingTasks
                /\ groups'[k].pendingMessages = groups[k].pendingMessages
      ]_vars

\* C6 witness: after shutdown a run has settled, leaving a slot free, while a
\* tenant is still on the waiting list.
C6_Witness ==
    /\ shuttingDown
    /\ last.op \in SettledRun
    /\ Len(waitingGroups) > 0
    /\ activeCount < MAX_CONCURRENT_CONTAINERS

\* C8: a message run starts only when the tenant has no pending task; when a
\* run settles, or the tenant is taken from the waiting list, with a task
\* pending (and a message check pending as well), the run started for the
\* tenant is the task at the head of its list.
C8_TasksBeforeMessages ==
    [][/\ \A i \in 1..Len(last'.started) :
             last'.started[i].kind = "messages" => last'.started[i].pending = 0
       /\ \A k \in Keys :
             (/\ last'.op \in SettledRun
              /\ last'.arg = k
              /\ ~shuttingDown
              /\ Len(groups[k].pendingTasks) > 0)
             => /\ Len(last'.started) > 0
                /\ last'.started[1].key = k
                /\ last'.started[1].kind = "task"
                /\ last'.started[1].id = Head(groups[k].pendingTasks).id
                /\ groups'[k].pendingMessages = groups[k].pendingMessages
       /\ \A i \in 1..Len(last'.taken) :
             LET k == last'.taken[i] IN
             Len(groups[k].pendingTasks) > 0
             => \E n \in 1..Len(last'.started) :
                   /\ last'.started[n].key = k
                   /\ last'.started[n].kind = "task"
                   /\ last'.started[n].id = Head(groups[k].pendingTasks).id
      ]_vars

\* C8 witness: a run has settled for a tenant that had a task and a message
\* check pending; the task was started and the message check still waits.
C8_Witness ==
    /\ last.op \in SettledRun
    /\ Len(last.started) = 1
    /\ last.started[1].kind = "task"
    /\ last.started[1].key = last.arg
    /\ groups[last.arg].pendingMessages
    /\ groups[last.arg].isTaskContainer

\* C3: sendMessage returns true and adds exactly one .json file, holding the
\* text (and the attachments when there are any), to the input directory of
\* the tenant's workspace if and only if the tenant is active, its run is not
\* a task run and a workspace is registered for it; otherwise it returns
\* false and the directories are as before.
C3_SendMessage ==
    [][\A j \in Jids, text \in Texts, a \in AttachmentArgs :
          (last'.op = "sendMessage" /\ last'.arg = j /\ SendMessage(j, text, a)) =>
             LET state == groups[resolveKey(j)]
                 ok == state.active /\ ~state.isTaskContainer /\ state.workspace # Null
             IN /\ last'.ret = (IF ok THEN "true" ELSE "false")
                /\ ok => LET before == inputDir[state.workspace].files
                             after == inputDir'[state.workspace].files
                         IN /\ before \subseteq after
                            /\ Cardinality(after \ before) = 1
                            /\ \A f \in after \ before :
                                  /\ f.ext = ".json"
                                  /\ f.content.text = text
                                  /\ (a # {} /\ a # {<<>>}) => f.content.attachments = a
                            /\ \A w \in Workspaces \ {state.workspace} :
                                  inputDir'[w] = inputDir[w]
                /\ ~ok => inputDir' = inputDir
      ]_vars

\* C3 witness: a sendMessage call has returned true and its file, with the
\* attachments, is in the input directory.
C3_Witness ==
    /\ last.op = "sendMessage"
    /\ last.ret = "true"
    /\ \E w \in Workspaces : \E f \in inputDir[w].files :
          f.content.attachments = {<<Attachment>>}

\* C7: shutdown() sets the shutting-down flag and nothing else: tenant states
\* (process handles with their killed flags included), active count, waiting
\* list, runs in flight and retry callbacks are as before.
C7_ShutdownFrame ==
    [][last'.op = "shutdown" =>
          /\ shuttingDown'
          /\ groups' = groups
          /\ activeCount' = activeCount
          /\ waitingGroups' = waitingGroups
          /\ running' = running
          /\ timers' = timers
          /\ inputDir' = inputDir
      ]_vars

\* C7 witness: shutdown() has been called while a sandbox process was live
\* and work was queued behind it; the process is reported as detached.
C7_Witness ==
    /\ last.op = "shutdown"
    /\ \E k \in Keys :
          /\ groups[k].active
          /\ groups[k].process = ProcLive
          /\ groups[k].containerName \in last.detached
          /\ groups[k].workspace # Null
          /\ Len(groups[k].pendingTasks) > 0

(***************************************************************************)
(* The IPC watcher's claims                                                *)
(***************************************************************************)
Deliveries == {"sendMessage", "sendReaction", "sendImage"}

\* C9: a delivery call (sendMessage, sendReaction, sendImage) is made only
\* while handling a file of some workspace's messages directory, to the chat
\* address that file names, and only if that workspace is the main one or
\* the address is registered with exactly that workspace; no other step
\* makes a delivery call.
C9_DeliveryOnlyIfAuthorized ==
    [][\A i \in (Len(sent) + 1)..Len(sent') :
          sent'[i].fn \in Deliveries =>
             /\ lastIpc'.op = "message"
             /\ lastIpc'.dir \in IpcWorkspaces
             /\ \E f \in ipcDirs[lastIpc'.dir].messages :
                   /\ f.name = lastIpc'.name
                   /\ f.data = lastIpc'.data
                   /\ f.data.type \in {"message", "reaction", "image"}
                   /\ sent'[i].jid = f.data.chatJid
             /\ \/ lastIpc'.dir = MAIN_WORKSPACE
                \/ groupOf(registeredGroups, sent'[i].jid) = lastIpc'.dir]_vars

\* a workspace other than the main one has had a delivery made, and the file
\* handled last, a message of workspace wa for a chat of workspace wb, was
\* refused without a call
C9_Witness ==
    /\ \E i \in 1..Len(sent) : sent[i].fn \in Deliveries /\ sent[i].jid = "a1"
    /\ lastIpc.op = "message"
    /\ lastIpc.dir = "wa"
    /\ lastIpc.data.type = "message"
    /\ lastIpc.data.chatJid = "b1"
    /\ registeredGroups["b1"] = "wb"
    /\ lastIpc.calls = <<>>
    /\ lastIpc.lines = <<"Unauthorized IPC message attempt blocked">>

\* the same request with the sender stating, field by field, nothing about
\* itself or that it is the main workspace
IdentityVariants(d) ==
    {[d EXCEPT !.groupFolder = g, !.isMain = m, !.workspace = w] :
        g \in {"", MAIN_WORKSPACE}, m \in BOOLEAN,
        w \in IF d.type = "register_group" THEN {d.workspace}
              ELSE {"", MAIN_WORKSPACE}}

\* C10: whatever file waits in a workspace's messages or tasks directory,
\* handling it does the same (the same calls on deps, the same registry and
\* task store, the same log lines, the same fate of the file) as handling
\* any file of that directory that differs from it only in what the sender
\* states about itself (groupFolder, isMain, and workspace where that is
\* not the request's own parameter).
C10_IdentityFromDirectory ==
    \A w \in IpcWorkspaces : \A fate \in Fates :
        /\ \A f \in ipcDirs[w].messages :
              LET done == handleMessageFile(IpcState, w, f, fate)
              IN \A v \in IdentityVariants(f.data) :
                    handleMessageFile(IpcState, w, File(f.name, f.valid, v), fate) = done
        /\ \A f \in ipcDirs[w].tasks :
              LET done == handleTaskFile(IpcState, w, f, fate)
              IN \A v \in IdentityVariants(f.data) :
                    handleTaskFile(IpcState, w, File(f.name, f.valid, v), fate) = done

\* a register_group request stating isMain, dropped into the directory of
\* workspace wa, has been handled and refused
C10_Witness ==
    /\ lastIpc.op = "task"
    /\ lastIpc.dir = "wa"
    /\ lastIpc.data.type = "register_group"
    /\ lastIpc.data.isMain
    /\ lastIpc.data.groupFolder = MAIN_WORKSPACE
    /\ lastIpc.lines = <<"Unauthorized register_group attempt blocked">>
    /\ registeredGroups["c1"] = Null

\* the tasks a step adds to the store
created == tasks' \ tasks

\* the step takes file f out of the tasks directory of workspace w
handlesTask(w, f) == f \in ipcDirs[w].tasks /\ f \notin ipcDirs'[w].tasks

\* C11: handling a schedule_task request adds at most one task to the store
\* and changes no other; it adds one only if the target chat address is
\* registered and the request's directory is the main workspace's or that of
\* the target's workspace, and the task added is bound to the target's
\* workspace and chat address.  A well-formed interval request of another
\* workspace than main whose store call succeeds adds exactly one task when
\* it targets a chat of its own workspace and none when it targets a chat
\* of another.
C11_ScheduleOnlyIfAuthorized ==
    [][\A w \in IpcWorkspaces : \A f \in ipcDirs[w].tasks :
          (handlesTask(w, f) /\ f.valid /\ f.data.type = "schedule_task") =>
             LET target == groupOf(registeredGroups, f.data.targetJid)
                 allowed == target # Null /\ (w = MAIN_WORKSPACE \/ target = w)
                 wellFormed == /\ f.data.prompt # ""
                               /\ f.data.schedule_type = "interval"
                               /\ f.data.schedule_value = <<"3", "0", "0">>
             IN /\ tasks \subseteq tasks'
                /\ Cardinality(created) <= 1
                /\ created # {} => allowed
                /\ \A t \in created : /\ t.workspace = target
                                      /\ t.chat_jid = f.data.targetJid
                                      /\ t.status = "active"
                /\ (w # MAIN_WORKSPACE /\ wellFormed /\ ~lastIpc'.threw) =>
                      Cardinality(created) = IF allowed THEN 1 ELSE 0]_vars

\* workspace wa has scheduled a task for its own chat, and its request for a
\* chat of workspace wb, handled last, was refused and added nothing
C11_Witness ==
    /\ \E t \in tasks : t.id = "task-1" /\ t.workspace = "wa" /\ t.chat_jid = "a1"
    /\ lastIpc.op = "task"
    /\ lastIpc.dir = "wa"
    /\ lastIpc.data.type = "schedule_task"
    /\ lastIpc.data.targetJid = "b1"
    /\ lastIpc.lines = <<"Unauthorized schedule_task attempt blocked">>
    /\ Cardinality(tasks) = 3

\* a schedule_task request that names a target, a prompt, a type and a value
completeSchedule(d) ==
    /\ d.type = "schedule_task"
    /\ d.prompt # "" /\ d.schedule_type # "" /\ d.schedule_value # <<>> /\ d.targetJid # ""

\* the value is a number in decimal digits
isNumeric(cs) == cs # <<>> /\ \A i \in 1..Len(cs) : isDigit(cs[i])

\* the schedule value is not one its declared type admits
invalidSchedule(d) ==
    CASE d.schedule_type = "cron" -> ~isCronExpression(d.schedule_value)
      [] d.schedule_type = "interval" ->
            ~isNumeric(d.schedule_value) \/ digitsValue(d.schedule_value, 0) <= 0
      [] d.schedule_type = "once" -> ~isDate(d.schedule_value)
      [] OTHER -> TRUE

\* C12: handling a schedule_task request whose schedule is invalid for its
\* declared type (an unparseable calendar expression, an interval that is
\* not a positive number, an unparseable timestamp, or a declared type that
\* is none of cron, interval and once) leaves the task store unchanged.
C12_InvalidScheduleRejected ==
    [][\A w \in IpcWorkspaces : \A f \in ipcDirs[w].tasks :
          (handlesTask(w, f) /\ f.valid /\ completeSchedule(f.data)
              /\ invalidSchedule(f.data)) => tasks' = tasks]_vars

\* the part of C12 that the code keeps: a calendar expression or timestamp
\* that does not parse, and an interval that does not start with a positive
\* number, is logged as such and creates no task
KnownTypeInvalidScheduleRejected ==
    [][\A w \in IpcWorkspaces : \A f \in ipcDirs[w].tasks :
          (handlesTask(w, f) /\ f.valid /\ completeSchedule(f.data)
              /\ \/ f.data.schedule_type \in {"cron", "once"} /\ invalidSchedule(f.data)
                 \/ /\ f.data.schedule_type = "interval"
                    /\ digitsValue(f.data.schedule_value, 0) <= 0) =>
             /\ tasks' = tasks
             /\ lastIpc'.lines \in {<<"Cannot schedule task: target group not registered">>,
                                    <<"Unauthorized schedule_task attempt blocked">>,
                                    <<"Invalid cron expression">>,
                                    <<"Invalid interval">>,
                                    <<"Invalid timestamp">>}]_vars

\* a task of a type that is none of the three is in the store, without a
\* next run
UnknownTypeStored ==
    \E t \in tasks : t.schedule_type = "weekly" /\ t.next_run.kind = "null"

\* a task whose interval is the leading digit of "5m" is in the store
PrefixIntervalStored ==
    \E t \in tasks : t.schedule_value = <<"5", "m">> /\ t.next_run = NextRun("now+", 5)

\* C13: handling a pause_task, resume_task or cancel_task request changes
\* the task store only if the named task exists and the request's directory
\* is the main workspace's or that of the task's workspace; the change is
\* then the new status of that task, or its removal, and nothing else.
\* Otherwise the store is left as it was.
C13_ChangeOnlyOwnTask ==
    [][\A w \in IpcWorkspaces : \A f \in ipcDirs[w].tasks :
          (handlesTask(w, f) /\ f.valid
              /\ f.data.type \in {"pause_task", "resume_task", "cancel_task"}) =>
             LET named == {t \in tasks : t.id = f.data.taskId}
                 others == {t \in tasks : t.id # f.data.taskId}
                 allowed == /\ named # {}
                            /\ w = MAIN_WORKSPACE \/ \A t \in named : t.workspace = w
             IN /\ tasks' # tasks => allowed
                /\ others \subseteq tasks'
                /\ tasks' \ others \in
                      {named,
                       CASE f.data.type = "pause_task" ->
                               {[t EXCEPT !.status = "paused"] : t \in named}
                         [] f.data.type = "resume_task" ->
                               {[t EXCEPT !.status = "active"] : t \in named}
                         [] OTHER -> {}}
                /\ (allowed /\ ~lastIpc'.threw /\ f.data.type = "cancel_task") =>
                      tasks' = others]_vars

\* workspace wa has paused its own task, and its request to pause the task of
\* workspace wb, handled last, was refused and left the store as it was
C13_Witness ==
    /\ \E t \in tasks : t.id = "task-wa" /\ t.status = "paused"
    /\ \E t \in tasks : t.id = "task-wb" /\ t.status = "active"
    /\ lastIpc.op = "task"
    /\ lastIpc.dir = "wa"
    /\ lastIpc.data.type = "pause_task"
    /\ lastIpc.data.taskId = "task-wb"
    /\ lastIpc.lines = <<"Unauthorized task pause attempt">>

\* the step takes file f out of the messages directory of workspace w
handlesMessage(w, f) == f \in ipcDirs[w].messages /\ f \notin ipcDirs'[w].messages

\* the names of the functions the step has called
calledIn(step) == {step.calls[i].fn : i \in 1..Len(step.calls)}

\* C14: the registry changes only when a register_group request is handled
\* that lies in the main workspace's directory and whose workspace name
\* passes isValidWorkspace, and then only the requested chat address is
\* bound to the requested workspace; the resync of the group metadata and
\* the rewriting of the snapshot happen only when a refresh_groups request of
\* the main workspace's directory is handled.  No file of another directory,
\* whatever it claims, changes the registry or triggers the resync.
C14_RegistryOnlyFromMain ==
    [][/\ \A w \in IpcWorkspaces : \A f \in ipcDirs[w].tasks :
            handlesTask(w, f) =>
               /\ registeredGroups' # registeredGroups =>
                     /\ w = MAIN_WORKSPACE
                     /\ f.valid /\ f.data.type = "register_group"
                     /\ isValidWorkspace(f.data.workspace)
                     /\ registeredGroups' =
                           [j \in DOMAIN registeredGroups \cup {f.data.jid} |->
                               IF j = f.data.jid THEN f.data.workspace
                               ELSE registeredGroups[j]]
               /\ calledIn(lastIpc') \cap {"syncGroupMetadata", "writeGroupsSnapshot"} # {} =>
                     /\ w = MAIN_WORKSPACE
                     /\ f.valid /\ f.data.type = "refresh_groups"
               /\ (w = MAIN_WORKSPACE /\ f.valid /\ f.data.type = "refresh_groups"
                      /\ ~lastIpc'.threw) =>
                     [i \in 1..Len(lastIpc'.calls) |-> lastIpc'.calls[i].fn] =
                        <<"syncGroupMetadata", "writeGroupsSnapshot">>
       /\ \A w \in IpcWorkspaces : \A f \in ipcDirs[w].messages :
            handlesMessage(w, f) =>
               /\ registeredGroups' = registeredGroups
               /\ calledIn(lastIpc') \cap {"syncGroupMetadata", "writeGroupsSnapshot"} = {}
      ]_vars

\* the main workspace has registered chat c1, and the request of workspace
\* wa, claiming to be main, to move its chat a1 to workspace wb, handled last,
\* was refused and left the registry as it was
C14_Witness ==
    /\ registeredGroups["c1"] = "wc"
    /\ registeredGroups["a1"] = "wa"
    /\ lastIpc.op = "task"
    /\ lastIpc.dir = "wa"
    /\ lastIpc.data.type = "register_group"
    /\ lastIpc.data.jid = "a1"
    /\ lastIpc.data.isMain
    /\ lastIpc.lines = <<"Unauthorized register_group attempt blocked">>

\* the step takes file f out of a directory of workspace w
handles(w, f) == handlesMessage(w, f) \/ handlesTask(w, f)

\* the files of workspace w that lie in one of its directories
filesOf(w) == ipcDirs[w].messages \cup ipcDirs[w].tasks

\* parsing or processing the file raised an exception: the one that reaches
\* the handler of the file loop, or the one the image branch catches itself
raised(step) ==
    \/ ~step.valid
    \/ step.threw
    \/ \E i \in 1..Len(step.lines) : step.lines[i] = "Failed to map or send IPC image"

\* the name under which a file of workspace w is kept in the error directory
errorName(w, f) == w \o "-" \o f.name

C16_NoSilentDrop ==
    [][\A w \in IpcWorkspaces : \A f \in filesOf(w) :
          handles(w, f) =>
             \/ lastIpc'.calls # <<>>
             \/ lastIpc'.lines # <<>>
             \/ tasks' # tasks
             \/ registeredGroups' # registeredGroups
             \/ errorName(w, f) \in errorsDir']_vars

\* the part of C16 that the code keeps: a file of a tasks directory whose
\* type is none of the six is logged as such, and a malformed file is moved
UnknownTaskTypeLogged ==
    [][\A w \in IpcWorkspaces : \A f \in ipcDirs[w].tasks :
          handlesTask(w, f) =>
             /\ (f.valid /\ f.data.type = "ping") =>
                   lastIpc'.lines = <<"Unknown IPC task type">>
             /\ ~f.valid => errorName(w, f) \in errorsDir']_vars

\* a file of a messages directory with a type the watcher does not know was
\* handled last: it is gone, nothing was called, logged, changed or moved
UnknownMessageTypeDropped ==
    /\ lastIpc.op = "message"
    /\ lastIpc.valid
    /\ lastIpc.data.type = "ping"
    /\ lastIpc.calls = <<>>
    /\ lastIpc.lines = <<>>
    /\ ipcLog = <<>>
    /\ errorsDir = {}
    /\ \A w \in IpcWorkspaces : filesOf(w) = {}

\* the same for a message without text and for a task request without task id
MissingFieldsDropped ==
    /\ lastIpc.valid
    /\ \/ lastIpc.op = "message" /\ lastIpc.data.type = "message" /\ lastIpc.data.text = ""
       \/ lastIpc.op = "task" /\ lastIpc.data.type = "cancel_task" /\ lastIpc.data.taskId = ""
    /\ lastIpc.calls = <<>>
    /\ lastIpc.lines = <<>>
    /\ errorsDir = {}

(***************************************************************************)
(* The message runs' claims                                                *)
(***************************************************************************)

\* the step in which the message run of chat j ends
runEnds(j) == agentRuns[j].pc = "running" /\ agentRuns'[j].pc = "idle"

\* C17: when a message run ends in error (runAgent resolved to error, or a
\* streamed result carried the error status), then, if no text was delivered
\* to the chat during the run, the chat's cursor is back at its value from
\* before the run, the error notice is sent and the run returns false; if a
\* text was delivered, the cursor keeps the value it had when the run ended,
\* no notice is sent and the run returns true.  A run that does not end in
\* error returns true and leaves the cursor alone.  No run moves the cursor
\* of another chat.
C17_RollbackUnlessOutputSent ==
    [][\A j \in RunChats :
          runEnds(j) =>
             LET run == agentRuns[j]
             IN /\ lastRun'.jid = j
                /\ lastRun'.how = "ran"
                /\ (lastRun'.error /\ run.delivered = 0) =>
                      /\ lastAgentTimestamp'[j] = run.cursorAtStart
                      /\ lastRun'.notice
                      /\ ~lastRun'.returned
                /\ (lastRun'.error /\ run.delivered > 0) =>
                      /\ lastAgentTimestamp'[j] = lastAgentTimestamp[j]
                      /\ ~lastRun'.notice
                      /\ lastRun'.returned
                /\ ~lastRun'.error =>
                      /\ lastAgentTimestamp'[j] = lastAgentTimestamp[j]
                      /\ ~lastRun'.notice
                      /\ lastRun'.returned
                /\ \A k \in RunChats \ {j} :
                      lastAgentTimestamp'[k] = lastAgentTimestamp[k]]_vars

\* the run of chat b1 ended in error with nothing delivered: it returned
\* false, sent the notice, and the cursor is back at the start although both
\* messages of the chat are in the store and seen by the message loop
C17_Witness ==
    /\ lastRun = Returned("b1", "ran", FALSE, TRUE, TRUE)
    /\ lastAgentTimestamp["b1"] = 0
    /\ lastTimestamp = 2
    /\ Len(getMessagesSince(storedMessages, "b1", 0)) = 2

\* the run of chat a1 ended in error after a text was delivered: it returned
\* true without notice and the cursor stays past the chat's message
ErrorAfterOutputKeepsCursor ==
    /\ lastRun = Returned("a1", "ran", TRUE, FALSE, TRUE)
    /\ lastAgentTimestamp["a1"] = 1
    /\ getMessagesSince(storedMessages, "a1", 0) = <<1>>

(***************************************************************************)
(* The sandbox run's claims                                                *)
(***************************************************************************)

\* the session identifier of the last forwarded payload that carries one
RECURSIVE lastSessionIn(_)
lastSessionIn(calls) ==
    IF calls = <<>> THEN Null
    ELSE IF calls[Len(calls)].newSessionId # Null THEN calls[Len(calls)].newSessionId
    ELSE lastSessionIn(SubSeq(calls, 1, Len(calls) - 1))

\* C18: a sandbox run forwards zero or more payloads and then resolves to
\* exactly one outcome, after which nothing is forwarded and nothing more is
\* resolved.  The outcome is success, with the session identifier seen last,
\* exactly when at least one payload was forwarded before the process exited,
\* whether it exited of itself, with a code other than 0, or stopped at the
\* hard timeout; when none was forwarded the outcome is an error that tells
\* of the timeout, if that had struck, and of the exit otherwise.
C18_OneOutcomeAfterResults ==
    [][/\ runOutcomes # <<>> => (runOutcomes' = runOutcomes /\ onOutputCalls' = onOutputCalls)
       /\ Len(runOutcomes') <= 1
       /\ (container'.pc = "resolved") = (Len(runOutcomes') = 1)
       /\ runOutcomes' # <<>> =>
             LET o == runOutcomes'[1]
             IN /\ (o.status = "success") = (onOutputCalls' # <<>>)
                /\ o.status \in {"success", "error"}
                /\ o.status = "success" =>
                      /\ o.newSessionId = lastSessionIn(onOutputCalls')
                      /\ o.error = ""
                /\ o.status = "error" =>
                      o.error = IF container'.timedOut THEN "timed out" ELSE "exited"]_vars

\* the run streamed a result with a session, was stopped at the hard timeout
\* and resolved as success with that session
C18_Witness ==
    /\ container.pc = "resolved"
    /\ container.timedOut
    /\ onOutputCalls = <<ContainerOutput(TRUE, "success", "text", "session-1")>>
    /\ runOutcomes = <<Outcome("success", "session-1", "")>>

\* the run streamed nothing, was stopped at the hard timeout and resolved as
\* an error that tells of the timeout
TimeoutWithoutOutputIsError ==
    /\ container.pc = "resolved"
    /\ container.timedOut
    /\ onOutputCalls = <<>>
    /\ runOutcomes = <<Outcome("error", Null, "timed out")>>

(***************************************************************************)
(* Claims on the mount security gate.                                      *)
(***************************************************************************)

\* every segment and pattern in use has its characters listed
segmentsSpelled ==
    \A p \in HostPaths : \A i \in 1..Len(p) :
       p[i] \in {"innocent-link", "out", "in", "nonexistent"} \/ chars(p[i]) # <<>>

\* the allowlist the last call decided on
decidedOn == cachedAllowlist.value

\* a segment of the path equals, letter case aside, a blocked pattern
blockedSegmentIn(path, patterns) ==
    \E i \in 1..Len(path) : \E pattern \in patterns :
       toLowerCase(chars(path[i])) = toLowerCase(chars(pattern))

\* the path lies under, or is, some allowed root
underAllowedRoot(path, allowedRoots) ==
    \E i \in 1..Len(allowedRoots) :
       /\ realpathSync(allowedRoots[i].path) \in RealPaths
       /\ startsWith(path, realpathSync(allowedRoots[i].path))

\* C19: validateMount allows a mount only if an allowlist document is
\* loaded, the host path exists, its symlink-resolved real path lies under or
\* equals an allowed root and no segment of the real path equals a blocked
\* pattern, letter case aside; and every other declared path with the same
\* real path gets the same verdict.
C19_AllowOnlyRealPathUnderRoot ==
    mountCall.called =>
       LET request == mountCall.request
           real == realpathSync(request.hostPath)
       IN /\ mountCall.result.allowed =>
                /\ cachedAllowlist.loaded /\ decidedOn.ok
                /\ allowlistFile.kind = "document"
                /\ real \in RealPaths
                /\ underAllowedRoot(real, decidedOn.document.allowedRoots)
                /\ ~blockedSegmentIn(real, decidedOn.document.blockedPatterns)
                /\ mountCall.result.realHostPath = real
          /\ \A declared \in HostPaths :
                realpathSync(declared) = real =>
                   validateMount(decidedOn, [request EXCEPT !.hostPath = declared],
                                 mountCall.isMain).allowed
                      = mountCall.result.allowed

\* a mount declared outside every root through a link into a root is allowed
C19_Witness ==
    /\ mountCall.called
    /\ mountCall.request.hostPath = <<"other", "in">>
    /\ mountCall.result.allowed
    /\ mountCall.result.realHostPath = <<"work", "project">>

\* a blocked directory behind an innocuously named link is denied, as is what
\* lies in it and a link that leaves the root
LinkToBlockedDenied ==
    mountCall.called =>
       /\ mountCall.request.hostPath \in {<<"work", "innocent-link">>,
                                          <<"work", "innocent-link", "id_rsa">>,
                                          <<"work", "out">>, <<"work", "Credentials">>}
             => ~mountCall.result.allowed
       /\ segmentsSpelled

\* the link to the blocked directory has been asked for under a root
LinkToBlockedAsked ==
    /\ mountCall.called
    /\ mountCall.request.hostPath = <<"work", "innocent-link">>
    /\ mountCall.result.reason = "blocked pattern"

\* the allowed roots over the path that no longer one is over
matchedRoots(path, allowedRoots) ==
    {allowedRoots[i] : i \in
        {i \in 1..Len(allowedRoots) :
            /\ startsWith(path, realpathSync(allowedRoots[i].path))
            /\ \A k \in 1..Len(allowedRoots) :
                  startsWith(path, realpathSync(allowedRoots[k].path))
                     => Len(allowedRoots[k].path) <= Len(allowedRoots[i].path)}}

\* C20: an allowed mount is read-only exactly when the request asked for
\* read-only, or the matched root disallows read-write, or the tenant is not
\* the privileged one and the allowlist sets nonMainReadOnly.
C20_EffectiveReadonly ==
    (mountCall.called /\ mountCall.result.allowed) =>
       \A root \in matchedRoots(mountCall.result.realHostPath,
                                decidedOn.document.allowedRoots) :
          mountCall.result.effectiveReadonly
             <=> \/ mountCall.request.readonly
                 \/ ~root.allowReadWrite
                 \/ ~mountCall.isMain /\ decidedOn.document.nonMainReadOnly

\* the privileged tenant asks for read-write under a root that disallows it,
\* and gets read-only
C20_Witness ==
    /\ mountCall.called /\ mountCall.result.allowed
    /\ mountCall.isMain /\ ~mountCall.request.readonly
    /\ matchedRoots(mountCall.result.realHostPath, decidedOn.document.allowedRoots)
          = {AllowedRoot(<<"work">>, FALSE)}
    /\ mountCall.result.effectiveReadonly

\* with none of the three a mount is read-write; a tenant that is not the
\* privileged one gets read-only under nonMainReadOnly, read-write without it
ReadWriteOnlyWithNone ==
    (mountCall.called /\ mountCall.result.allowed) =>
       /\ (~mountCall.isMain /\ decidedOn.document.nonMainReadOnly)
             => mountCall.result.effectiveReadonly
       /\ ~mountCall.result.effectiveReadonly
             => /\ ~mountCall.request.readonly
                /\ mountCall.isMain \/ ~decidedOn.document.nonMainReadOnly
                /\ matchedRoots(mountCall.result.realHostPath,
                                decidedOn.document.allowedRoots) # {}

\* a read-write mount under the inner of two nested roots, for a tenant that
\* is not the privileged one
NestedRootReadWrite ==
    /\ mountCall.called /\ mountCall.result.allowed
    /\ ~mountCall.isMain /\ ~mountCall.result.effectiveReadonly
    /\ mountCall.result.realHostPath = <<"work", "project", "docs">>
    /\ Len(decidedOn.document.allowedRoots) = 2

(***************************************************************************)
(* Claims on workspace paths.                                              *)
(***************************************************************************)

\* the base directory of the resolution made
baseOf(by) ==
    IF by = "resolveWorkspacePath" THEN <<<<"groups">>>> ELSE <<<<"data">>, <<"ipc">>>>

\* the cases the name must be refused in
mustBeRefused(cs) ==
    \/ cs = <<>>
    \/ cs # <<>> /\ (Head(cs) \in {" ", "\t"} \/ cs[Len(cs)] \in {" ", "\t"})
    \/ \E i \in 1..Len(cs) : cs[i] \in {"/", "\\"}
    \/ \E i \in 1..(Len(cs) - 1) : cs[i] = "." /\ cs[i + 1] = "."
    \/ Len(cs) > 64
    \/ cs # <<>> /\ Head(cs) \notin Range(Lower) \cup Range(Upper) \cup Range(Digits)
    \/ toLowerCase(cs) = <<"g", "l", "o", "b", "a", "l">>

\* C21: a path resolution throws or returns a direct child of its base
\* directory, named as asked; it throws exactly when isValidWorkspace is
\* false, and that is so for the empty name, a name with white space at
\* either end, with "/", "\" or "..", of more than 64 characters, not starting
\* with a letter or digit, and for "global" in any letter case.
C21_ResolvedIsDirectChild ==
    resolution # NotResolved =>
       /\ resolution.threw <=> ~isValidWorkspaceName(workspaceName)
       /\ ~resolution.threw =>
             /\ Len(resolution.path) = Len(baseOf(resolution.by)) + 1
             /\ SubSeq(resolution.path, 1, Len(baseOf(resolution.by)))
                   = baseOf(resolution.by)
             /\ resolution.path[Len(resolution.path)] = workspaceName
       /\ mustBeRefused(workspaceName) => resolution.threw

\* a name is resolved below data/ipc, and the reserved name in capitals is
\* refused
C21_Witness ==
    /\ resolution.by = "resolveWorkspaceIpcPath"
    /\ ~resolution.threw
    /\ workspaceName = <<"T", "e", "a", "m", "_", "4", "2">>
    /\ resolution.path = <<<<"data">>, <<"ipc">>, workspaceName>>

\* the names of the tests that are refused, a name of 65 characters and a
\* spelling of the reserved name throw; a name of 64 characters does not
RefusedNamesThrow ==
    resolution # NotResolved =>
       /\ workspaceName \in {<<".", ".", "/", ".", ".", "/", "e", "t", "c">>,
                             <<"/", "t", "m", "p">>, [i \in 1..65 |-> "a"],
                             <<"G", "l", "o", "B", "a", "l">>, <<"a", " ">>}
             => resolution.threw
       /\ workspaceName \in {[i \in 1..64 |-> "a"], <<"g", "l", "o", "b", "a", "l", "s">>}
             => ~resolution.threw

\* the reserved name in mixed case has been asked for and refused
ReservedSpellingRefused ==
    /\ resolution.by = "resolveWorkspacePath"
    /\ workspaceName = <<"G", "l", "o", "B", "a", "l">>
    /\ resolution.threw

(***************************************************************************)
(* The scheduler's claims on failures, the waiting list and retries.       *)
(***************************************************************************)

\* the handler that ran was the end of a failed run
failedRunEnded == last'.op \in {"runForGroup:false", "runForGroup:throw", "runTask:throw"}

\* the tenant was taken from the waiting list and its queued work started
startedFromWaiting(before, after) ==
    \/ /\ Len(before.pendingTasks) > 0
       /\ after = [before EXCEPT !.active = TRUE, !.idleWaiting = FALSE,
                                 !.isTaskContainer = TRUE,
                                 !.pendingTasks = Tail(before.pendingTasks)]
    \/ /\ Len(before.pendingTasks) = 0 /\ before.pendingMessages
       /\ processMessagesFn # Null
       /\ after = [before EXCEPT !.active = TRUE, !.idleWaiting = FALSE,
                                 !.isTaskContainer = FALSE, !.pendingMessages = FALSE]
    \* without a message function the run is over as it starts
    \/ /\ Len(before.pendingTasks) = 0 /\ before.pendingMessages
       /\ processMessagesFn = Null
       /\ after = [before EXCEPT !.pendingMessages = FALSE]

\* C22: the handling of a failed run of one tenant (the message function
\* returned false or threw, or a task function threw) leaves every other
\* tenant's runtime state as it was, except that a tenant taken from the
\* waiting list is started; its retry counter stays as it was too.
C22_FailureLeavesOthersAlone ==
    [][failedRunEnded =>
          \A k \in Keys \ {last'.arg} :
             IF Includes(last'.taken, k)
             THEN /\ Includes(waitingGroups, k) /\ ~groups[k].active
                  /\ startedFromWaiting(groups[k], groups'[k])
             ELSE groups'[k] = groups[k]]_vars

\* a message run has failed while another tenant ran and a third one was
\* waiting, which the end of the failed run started
C22_Witness ==
    /\ last.op \in {"runForGroup:false", "runForGroup:throw"}
    /\ groups[last.arg].retryCount = 1
    /\ Len(last.taken) = 1
    /\ groups[last.taken[1]].active
    /\ \E k \in Keys \ {last.arg, last.taken[1]} : groups[k].active

\* a task function has thrown while another tenant's run was in flight
TaskThrewBesideOthers ==
    /\ last.op = "runTask:throw"
    /\ \E k \in Keys \ {last.arg} : groups[k].active

\* C24: whenever a run of a tenant completes successfully, message run or
\* task run, the tenant's retryCount is 0 right afterwards.
C24_SuccessResetsRetryCount ==
    [][last'.op \in {"runForGroup:true", "runTask:return"}
          => groups'[last'.arg].retryCount = 0]_vars

\* C24 as the code has it: a successful message run leaves retryCount at 0; a
\* task run, successful or not, leaves it as it was.
C24_MessageSuccessResetsRetryCount ==
    [][/\ last'.op = "runForGroup:true" => groups'[last'.arg].retryCount = 0
       /\ last'.op \in {"runTask:return", "runTask:throw"}
             => groups'[last'.arg].retryCount = groups[last'.arg].retryCount]_vars

\* a task run has completed successfully for a tenant whose message run had
\* failed before, and the counter still stands at 1
C24_Witness ==
    /\ last.op = "runTask:return"
    /\ groups[last.arg].retryCount = 1
    /\ streak[last.arg] = 1

\* a message run has succeeded while the retry of an earlier failure was
\* still outstanding, and the counter is back at 0
MessageSuccessAfterFailure ==
    /\ last.op = "runForGroup:true"
    /\ TimersOf(timers, last.arg) # {}
    /\ groups[last.arg].retryCount = 0

\* the tenant's sandbox has reported idle and a task is pending for it
idleWithTaskPending(state) == state.idleWaiting /\ Len(state.pendingTasks) > 0

TaskEnqueuedWhileIdle ==
    /\ last.op = "enqueueTask"
    /\ last.closed = <<resolveKey(last.arg)>>
    /\ idleWithTaskPending(groups[resolveKey(last.arg)])

\* GroupQueue by itself writes no sentinel when the workspace is registered
\* only after both have become true
NoSentinelOnLateRegistration ==
    [][\A k \in Keys :
          (/\ groups[k].active /\ groups[k].workspace = Null
           /\ idleWithTaskPending(groups[k])
           /\ groups'[k].workspace # Null)
          => last'.closed = <<>>]_vars

\* a workspace has been registered after the idle report and with a task
\* pending
LateRegistration ==
    /\ last.op = "registerProcess"
    /\ groups[resolveKey(last.arg)].workspace # Null
    /\ idleWithTaskPending(groups[resolveKey(last.arg)])
    /\ ~inputDir[groups[resolveKey(last.arg)].workspace].close

\* C23: the waiting list holds each tenant key at most once, however many
\* enqueueMessageCheck and enqueueTask calls for the tenant were deferred
\* while the cap was reached.
C23_WaitingListHasNoDuplicates ==
    \A i, j \in 1..Len(waitingGroups) : waitingGroups[i] = waitingGroups[j] => i = j

\* two tenants wait, and for one of them both a message check and a task were
\* deferred, the later of the two calls leaving the list as it was
C23_Witness ==
    /\ Len(waitingGroups) = 2
    /\ activeCount = MAX_CONCURRENT_CONTAINERS
    /\ last.op \in {"enqueueMessageCheck", "enqueueTask"}
    /\ Includes(waitingGroups, resolveKey(last.arg))
    /\ groups[resolveKey(last.arg)].pendingMessages
    /\ Len(groups[resolveKey(last.arg)].pendingTasks) = 1

\* a tenant in the waiting list is not active and has work queued
WaitingTenantHasWork ==
    \A i \in 1..Len(waitingGroups) :
       /\ ~groups[waitingGroups[i]].active
       /\ groups[waitingGroups[i]].pendingMessages
             \/ Len(groups[waitingGroups[i]].pendingTasks) > 0

\* the runs a handler started for tenants it took from the waiting list
RECURSIVE startedFromList(_)
startedFromList(started) ==
    IF started = <<>> THEN <<>>
    ELSE IF Head(started).from = "waiting"
    THEN <<Head(started).key>> \o startedFromList(Tail(started))
    ELSE startedFromList(Tail(started))

\* C27: tenants leave the waiting list first in, first out: a step takes
\* tenants from the head of the list only, in the order of the list, starts
\* the queued task or message run of each in that order, and leaves the
\* remaining tenants in their order.
C27_WaitingListIsFifo ==
    [][LET n == Len(last'.taken)
       IN /\ n <= Len(waitingGroups)
          /\ last'.taken = SubSeq(waitingGroups, 1, n)
          /\ Len(waitingGroups') >= Len(waitingGroups) - n
          /\ SubSeq(waitingGroups', 1, Len(waitingGroups) - n)
                = SubSeq(waitingGroups, n + 1, Len(waitingGroups))
          /\ startedFromList(last'.started) = last'.taken]_vars

\* the end of a run has taken the tenant that waited longest and started it,
\* and the tenant appended after it still waits
C27_Witness ==
    /\ last.op \in {"runForGroup:true", "runTask:return"}
    /\ Len(last.taken) = 1
    /\ groups[last.taken[1]].active
    /\ Len(waitingGroups) = 1
    /\ ~groups[waitingGroups[1]].active

(***************************************************************************)
(* Claims on the tasks that wait.                                          *)
(***************************************************************************)

\* the task is queued for the tenant
queued(state, id) == \E i \in 1..Len(state.pendingTasks) : state.pendingTasks[i].id = id

\* how often the task is queued for the tenant
queuedCount(state, id) ==
    Cardinality({i \in 1..Len(state.pendingTasks) : state.pendingTasks[i].id = id})

\* how many runs of the task a handler started for the tenant
startedCount(started, k, id) ==
    Cardinality({i \in 1..Len(started) :
                    started[i].key = k /\ started[i].kind = "task" /\ started[i].id = id})

\* each accepted enqueueTask puts one task on its way, and each queued task is
\* started once: in every step, for every tenant, what is queued afterwards
\* and what was started is what was queued before, plus the one task an
\* enqueueTask for the tenant accepted
oncePerAcceptedEnqueue ==
    \A k \in Keys :
       IF last'.op = "enqueueTask" /\ resolveKey(last'.arg) = k
       THEN \E accepted \in TaskIds :
               \A id \in TaskIds :
                  queuedCount(groups'[k], id) + startedCount(last'.started, k, id)
                     = queuedCount(groups[k], id)
                          + (IF id = accepted /\ ~queued(groups[k], id) /\ ~shuttingDown
                             THEN 1 ELSE 0)
       ELSE \A id \in TaskIds :
               queuedCount(groups'[k], id) + startedCount(last'.started, k, id)
                  = queuedCount(groups[k], id)

\* C26: with every run ending and no shutdown, every task enqueueTask accepts
\* is run in the end, once per accepted enqueue, whether it was started at
\* once, queued behind the tenant's run or deferred to the waiting list.
C26_EveryAcceptedTaskRuns ==
    /\ [][oncePerAcceptedEnqueue]_vars
    /\ \A k \in LiveKeys : queued(groups[k], "t1") ~> ~queued(groups[k], "t1")

\* when the run of a tenant with no work of its own queued ends, the tenant
\* at the head of the waiting list is taken and its first queued task started
headStartedWhenSlotFreed ==
    (/\ last'.op \in SettledRun
     /\ groups[last'.arg].pendingTasks = <<>> /\ ~groups[last'.arg].pendingMessages
     /\ waitingGroups # <<>>)
    => /\ last'.taken # <<>> /\ last'.taken[1] = Head(waitingGroups)
       /\ groups[Head(waitingGroups)].pendingTasks # <<>>
             => /\ last'.started[1].key = Head(waitingGroups)
                /\ last'.started[1].kind = "task"
                /\ last'.started[1].id = Head(groups[Head(waitingGroups)].pendingTasks).id

\* C26 as the code has it: a task is run once per accepted enqueue; a task
\* queued behind the tenant's own run is run in the end; a task deferred to
\* the waiting list is started when the run of a tenant with no work of its
\* own queued ends while the task's tenant heads the list.
C26_AcceptedTaskRunsUnlessStarved ==
    /\ [][oncePerAcceptedEnqueue /\ headStartedWhenSlotFreed]_vars
    /\ \A k \in LiveKeys :
          (groups[k].active /\ queued(groups[k], "t1")) ~> ~queued(groups[k], "t1")

\* a task deferred to the waiting list has been started by the end of
\* another tenant's run
C26_Witness ==
    /\ last.op \in SettledRun
    /\ Len(last.taken) = 1
    /\ Len(last.started) = 1
    /\ last.started[1].kind = "task" /\ last.started[1].from = "waiting"
    /\ last.started[1].key = last.taken[1]
    /\ RunsOf(running, last.taken[1]) = 1

\* a task waits in the list while both slots are held by tenants with a
\* message check queued behind their runs
TaskWaitsBehindBusyTenants ==
    /\ Len(waitingGroups) = 1
    /\ Len(groups[waitingGroups[1]].pendingTasks) = 1
    /\ \E k1, k2 \in Keys :
          /\ k1 # k2
          /\ groups[k1].active /\ groups[k1].pendingMessages
          /\ groups[k2].active /\ groups[k2].pendingMessages

\* the place of a file name in the order Array.prototype.sort gives
placeOf(name) == CHOOSE i \in 1..Len(FileNamesAscending) : FileNamesAscending[i] = name

\* the step processes the first file of the listing of one directory, and
\* every file of the listing still to come has a later name
nextFileIsLeast ==
    \A w \in IpcWorkspaces : \A f \in filesOf(w) :
       handles(w, f) =>
          /\ poll.files # <<>>
          /\ f.name = Head(poll.files)
          /\ poll'.files = Tail(poll.files)
          /\ \A i \in 2..Len(poll.files) : placeOf(f.name) < placeOf(poll.files[i])

\* C28: within one poll pass and one workspace directory the files are
\* processed one after another in ascending order of their names, in the
\* messages directory and in the tasks directory alike.
C28_FilesInAscendingOrder == [][nextFileIsLeast]_vars

\* the part of C28 that the watcher keeps: the files of a messages directory
\* are processed one after another in ascending order of their names
MessageFilesInAscendingOrder == [][poll.phase = "messages" => nextFileIsLeast]_vars

\* two files of one messages directory were listed together, and the first
\* is processed while the second is still to come
TwoMessageFilesInOnePass ==
    /\ poll.phase = "messages"
    /\ poll.files = <<"2.json">>
    /\ lastIpc.op = "message"
    /\ lastIpc.name = "1.json"
    /\ lastIpc.dir = Head(poll.workspaces)

\* one file after another in the tasks directory too: each step takes the
\* head of the listing
TaskFilesOneAfterAnother ==
    [][\A w \in IpcWorkspaces : \A f \in filesOf(w) :
          handlesTask(w, f) =>
             /\ poll.phase = "tasks"
             /\ poll.files # <<>>
             /\ f.name = Head(poll.files)
             /\ poll'.files = Tail(poll.files)]_vars

\* the two directories of a workspace
IpcKinds == {"messages", "tasks"}

\* file n of directory kind of workspace w is pending in the pass under way:
\* it is in the listing being worked off, or its directory is still to be
\* listed in this pass
ahead(w, kind, n) ==
    /\ poll.phase \in IpcKinds
    /\ n \in NamesIn(ipcDirs[w][kind])
    /\ \/ /\ w = Head(poll.workspaces)
          /\ kind = poll.phase
          /\ \E i \in 1..Len(poll.files) : poll.files[i] = n
       \/ /\ w = Head(poll.workspaces)
          /\ poll.phase = "messages"
          /\ kind = "tasks"
       \/ \E i \in 2..Len(poll.workspaces) : poll.workspaces[i] = w

\* the step processes file n of directory kind of workspace w
processes(w, kind, n) ==
    /\ n \in NamesIn(ipcDirs[w][kind])
    /\ n \notin NamesIn(ipcDirs'[w][kind])
    /\ lastIpc'.op = (IF kind = "messages" THEN "message" ELSE "task")
    /\ lastIpc'.dir = w
    /\ lastIpc'.name = n

\* a file pending in the pass stays pending in it until it is processed
\* itself, whatever becomes of the file processed in the step
pendingUntilProcessed ==
    \A w \in IpcWorkspaces : \A kind \in IpcKinds :
       \A i \in 1..Len(FileNamesAscending) :
          LET n == FileNamesAscending[i]
          IN ahead(w, kind, n) => ahead(w, kind, n)' \/ processes(w, kind, n)

\* the step processes a file, and parsing or processing it throws
fileFails ==
    \E w \in IpcWorkspaces : \E f \in filesOf(w) :
       handles(w, f) /\ (~f.valid \/ lastIpc'.threw)

\* C29: a file whose processing fails does not halt the watcher: the step
\* that fails moves on to the next file of the listing, every other file
\* pending in the pass (of the same workspace and of every other) stays
\* pending in it until it is processed itself, and every pass reaches its end,
\* where the timer of the next pass is set.
C29_FailureNeverHaltsWatcher ==
    /\ [][pendingUntilProcessed]_vars
    /\ [][fileFails => /\ poll.files # <<>>
                       /\ poll' = [poll EXCEPT !.files = Tail(poll.files)]]_vars
    /\ (poll.phase \in IpcKinds) ~> (poll.phase = "timer")

\* the file 1.json of the main workspace has just failed and lies in the
\* error directory, and the file 2.json of workspace wa is still pending in
\* the same pass
C29_Witness ==
    /\ lastIpc.dir = MAIN_WORKSPACE
    /\ lastIpc.name = "1.json"
    /\ lastIpc.threw
    /\ errorsDir = {"main-1.json"}
    /\ Head(poll.workspaces) = MAIN_WORKSPACE
    /\ \E kind \in IpcKinds : ahead("wa", kind, "2.json")

\* a pass in which the first of two files of one directory failed has
\* processed the second and set the timer of the next pass
FailedPassCompleted ==
    /\ poll.phase = "timer"
    /\ errorsDir = {"wa-1.json"}
    /\ lastIpc.dir = "wa"
    /\ lastIpc.name = "2.json"
    /\ ~lastIpc.threw
    /\ lastIpc.valid
    /\ \A w \in IpcWorkspaces : filesOf(w) = {}

(***************************************************************************)
(* The order of a chat's message batches                                   *)
(***************************************************************************)

\* the step starts a message run of chat j
messageRunStarts(j) == agentRuns[j].pc = "idle" /\ agentRuns'[j].pc = "running"

\* the cursor of chat j moves to an earlier timestamp
cursorMovesBack(j) == lastAgentTimestamp'[j] < lastAgentTimestamp[j]

\* the cursor of chat j moves to a later timestamp
cursorAdvances(j) == lastAgentTimestamp'[j] > lastAgentTimestamp[j]

\* C30: within one chat the cursor of the processed messages never moves to
\* an earlier timestamp, a new message run starts only after the run before
\* it has ended, and so the batches of the chat are handed over in the order
\* of arrival.
C30_CursorNeverMovesBack ==
    [][\A j \in RunChats :
          /\ ~cursorMovesBack(j)
          /\ agentRuns'[j].pc = "running" /\ agentRuns'[j] # agentRuns[j] =>
                \/ messageRunStarts(j)
                \/ agentRuns'[j].cursorAtStart = agentRuns[j].cursorAtStart]_vars

\* C30 as amended: the cursor of a chat moves to an earlier timestamp only
\* when a run of the chat ends in error with no output sent to the user, and
\* then to the value it had when that run started; a message run starts only
\* when no run of the chat is under way, and the run under way is not
\* replaced; and every batch that advances the cursor, at the start of a run
\* or piped to the running sandbox, holds all of the chat's stored messages
\* after the old cursor in the order of arrival, the cursor moving to the
\* last of them.
C30_CursorMovesBackOnlyOnRollback ==
    [][\A j \in RunChats :
          /\ cursorMovesBack(j) =>
                /\ runEnds(j)
                /\ lastRun'.jid = j
                /\ lastRun'.error
                /\ ~agentRuns[j].outputSentToUser
                /\ lastAgentTimestamp'[j] = agentRuns[j].cursorAtStart
          /\ agentRuns'[j].pc = "running" /\ agentRuns'[j] # agentRuns[j] =>
                \/ messageRunStarts(j)
                \/ agentRuns'[j].cursorAtStart = agentRuns[j].cursorAtStart
          /\ cursorAdvances(j) =>
                LET batch == getMessagesSince(storedMessages, j, lastAgentTimestamp[j])
                IN /\ batch # <<>>
                   /\ \A i \in 1..(Len(batch) - 1) : batch[i] < batch[i + 1]
                   /\ lastAgentTimestamp'[j] = batch[Len(batch)]
                   /\ getMessagesSince(storedMessages', j, lastAgentTimestamp'[j]) = <<>>
                   /\ messageRunStarts(j) \/ agentRuns[j].pc = "running"]_vars

\* the second run of chat a1, started with the cursor at the first message,
\* ended in error with nothing sent: the cursor is back at the first message
\* and the second message is pending again
C30_Witness ==
    /\ lastRun = Returned("a1", "ran", FALSE, TRUE, TRUE)
    /\ lastAgentTimestamp["a1"] = 1
    /\ getMessagesSince(storedMessages, "a1", 0) = <<1, 2>>
    /\ agentRuns["a1"].pc = "idle"

\* a message piped to the running sandbox of chat a1 moved the cursor from
\* the first to the second message
PipedBatchAdvancesCursor ==
    /\ agentRuns["a1"].pc = "running"
    /\ agentRuns["a1"].cursorAtStart = 0
    /\ lastAgentTimestamp["a1"] = 2
    /\ lastTimestamp = 2
    /\ getMessagesSince(storedMessages, "a1", 0) = <<1, 2>>

(***************************************************************************)
(* The scheduler's bookkeeping                                             *)
(***************************************************************************)

\* the tenants whose active flag is set
activeTenants == {k \in Keys : groups[k].active}

\* C32: in every reachable state the global active count is the number of
\* tenants whose active flag is set, and these are the tenants with a run in
\* flight; a run that returns false or throws releases its slot like any
\* other.
C32_ActiveCountMatchesFlags ==
    /\ activeCount = Cardinality(activeTenants)
    /\ \A k \in Keys : groups[k].active <=> RunsOf(running, k) = 1

\* a run has just thrown while another tenant runs: the thrower is no longer
\* active and exactly the other tenant's slot is counted
C32_Witness ==
    /\ last.op \in {"runForGroup:throw", "runTask:throw"}
    /\ last.started = <<>>
    /\ ~groups[last.arg].active
    /\ activeCount = 1
    /\ \E k \in Keys \ {last.arg} : groups[k].active

\* C33: while the scheduler is not shutting down, a non-empty waiting list
\* means that every slot is taken, and no tenant on the waiting list is
\* active.
C33_WaitingOnlyAtCap ==
    ~shuttingDown /\ Len(waitingGroups) > 0 =>
       /\ activeCount = MAX_CONCURRENT_CONTAINERS
       /\ \A i \in 1..Len(waitingGroups) : ~groups[waitingGroups[i]].active

\* a run has ended and its slot went to the head of the waiting list at
\* once, while another tenant still waits with every slot taken
C33_Witness ==
    /\ ~shuttingDown
    /\ last.op \in SettledRun
    /\ last.taken # <<>>
    /\ Len(last.started) = 1
    /\ Len(waitingGroups) > 0
    /\ activeCount = MAX_CONCURRENT_CONTAINERS

\* C34: while the scheduler is not shutting down, a tenant that is not active
\* and has a pending message check or a pending task is on the waiting list.
C34_NoStrandedWork ==
    ~shuttingDown =>
       \A k \in Keys :
          (~groups[k].active /\ (groups[k].pendingMessages \/ Len(groups[k].pendingTasks) > 0))
             => Includes(waitingGroups, k)

\* two tenants wait, one with a pending task and one with a pending message
\* check, and both are on the waiting list
C34_Witness ==
    /\ ~shuttingDown
    /\ \E k1, k2 \in Keys :
          /\ k1 # k2
          /\ ~groups[k1].active /\ Len(groups[k1].pendingTasks) > 0
          /\ ~groups[k2].active /\ groups[k2].pendingMessages
          /\ Includes(waitingGroups, k1) /\ Includes(waitingGroups, k2)

\* after shutdown queued work stays where it is: a tenant has a pending task,
\* is not active and no run is in flight
StrandedByShutdown ==
    /\ shuttingDown
    /\ activeCount = 0
    /\ \E k \in Keys : ~groups[k].active /\ Len(groups[k].pendingTasks) > 0

\* after shutdown a slot is free while a tenant is still on the waiting list
FreeSlotAfterShutdown ==
    /\ shuttingDown
    /\ Len(waitingGroups) > 0
    /\ activeCount < MAX_CONCURRENT_CONTAINERS

(***************************************************************************)
(* Coalesced message checks                                                *)
(***************************************************************************)

\* the runs of tenant k among those a handler started
startsOf(started, k) == {i \in 1..Len(started) : started[i].key = k}

\* the step is a message check for tenant k that arrives during a run of k
checkDuringRun(k) ==
    /\ last'.op \in {"enqueueMessageCheck", "retryTimer"}
    /\ resolveKey(last'.arg) = k
    /\ groups[k].active
    /\ ~shuttingDown

\* the step is the end of a run of tenant k with a message check pending
runEndsWithCheckPending(k) ==
    /\ last'.op \in SettledRun
    /\ last'.arg = k
    /\ groups[k].pendingMessages
    /\ ~shuttingDown

\* C35: message checks are coalesced.  A check that arrives during a run of
\* its tenant only sets pendingMessages (and the address to answer) and starts
\* nothing, so a second one changes nothing more; when a run of the tenant
\* ends with a check pending, the pending tasks go first, one per run, the
\* check standing; the end of the run that leaves no task pending starts
\* exactly one message run for the tenant and clears the check; and no
\* message run is started from the drain without a check pending.
C35_MessageChecksCoalesced ==
    [][\A k \in Keys :
          /\ checkDuringRun(k) =>
                /\ groups'[k] = [groups[k] EXCEPT !.pendingMessages = TRUE,
                                                  !.lastTriggerJid = last'.arg]
                /\ last'.started = <<>>
                /\ activeCount' = activeCount
                /\ waitingGroups' = waitingGroups
                /\ running' = running
          /\ runEndsWithCheckPending(k) =>
                /\ Cardinality(startsOf(last'.started, k)) = 1
                /\ LET start == last'.started[CHOOSE i \in startsOf(last'.started, k) : TRUE]
                   IN IF groups[k].pendingTasks = <<>>
                      THEN /\ start.kind = "messages"
                           /\ start.from = "drain"
                           /\ ~groups'[k].pendingMessages
                      ELSE /\ start.kind = "task"
                           /\ start.id = Head(groups[k].pendingTasks).id
                           /\ groups'[k].pendingMessages
                           /\ groups'[k].active
          /\ \A i \in startsOf(last'.started, k) :
                (last'.started[i].kind = "messages" /\ last'.started[i].from = "drain")
                   => groups[k].pendingMessages]_vars

\* all calls were spent on one tenant: its message run has ended
\* successfully with a check pending and the one follow-up run is in flight,
\* no check pending any more
C35_Witness ==
    /\ callsLeft = 0
    /\ last.op = "runForGroup:true"
    /\ \E k \in Keys :
          /\ last.arg = k
          /\ Len(last.started) = 1
          /\ last.started[1].key = k
          /\ last.started[1].kind = "messages"
          /\ last.started[1].from = "drain"
          /\ ~groups[k].pendingMessages
          /\ groups[k].pendingTasks = <<>>
          /\ RunsOf(running, k) = 1
          /\ \A other \in Keys \ {k} : groups[other] = InitialGroupState

\* a task run has ended with a task and a message check pending: the task is
\* started and the check stands
TaskBeforeCoalescedCheck ==
    /\ last.op = "runTask:return"
    /\ Len(last.started) = 1
    /\ last.started[1].kind = "task"
    /\ last.started[1].from = "drain"
    /\ groups[last.arg].pendingMessages
    /\ groups[last.arg].active

(***************************************************************************)
(* The order of a tenant's tasks                                           *)
(***************************************************************************)

\* the pending task list of tenant k changes as a queue does: it stays, it
\* loses its head, or it gains one task at its end
queueStep(k) ==
    LET before == groups[k].pendingTasks
        after == groups'[k].pendingTasks
    IN \/ after = before
       \/ before # <<>> /\ after = Tail(before)
       \/ Len(after) = Len(before) + 1 /\ SubSeq(after, 1, Len(before)) = before

\* C36: the tasks of one tenant are started in the order in which
\* enqueueTask accepted them.  Accepted tasks join the pending list at its
\* end and leave it at its head only; a task started from the list is its
\* head, and a task started by enqueueTask itself finds the list empty, so
\* no task is started while an earlier one of the tenant is pending.
C36_TasksInAcceptedOrder ==
    [][\A k \in Keys :
          /\ queueStep(k)
          /\ \A i \in startsOf(last'.started, k) :
                last'.started[i].kind = "task" =>
                   IF groups[k].pendingTasks = <<>>
                   THEN /\ last'.op = "enqueueTask"
                        /\ last'.started[i].from = "enqueue"
                        /\ groups'[k].pendingTasks = <<>>
                   ELSE /\ last'.started[i].from \in {"drain", "waiting"}
                        /\ last'.started[i].id = Head(groups[k].pendingTasks).id
                        /\ groups'[k].pendingTasks = Tail(groups[k].pendingTasks)]_vars

\* the run of a tenant has ended with two tasks pending: t1, accepted first,
\* is started and t2 is still pending
C36_Witness ==
    /\ last.op \in SettledRun
    /\ Len(last.started) = 1
    /\ last.started[1].kind = "task"
    /\ last.started[1].id = "t1"
    /\ last.started[1].from = "drain"
    /\ Len(groups[last.arg].pendingTasks) = 1
    /\ groups[last.arg].pendingTasks[1].id = "t2"

\* task id is among the pending tasks of tenant k
isPending(k, id) ==
    \E i \in 1..Len(groups[k].pendingTasks) : groups[k].pendingTasks[i].id = id

\* C37: in every reachable state no two pending tasks of a tenant have the
\* same id, and enqueueTask with the id of a pending task of the tenant, from
\* whichever of the tenant's chats, leaves the scheduler as it is.
C37_NoDuplicatePendingTask ==
    /\ \A k \in Keys : \A i, n \in 1..Len(groups[k].pendingTasks) :
          i # n => groups[k].pendingTasks[i].id # groups[k].pendingTasks[n].id
    /\ \A j \in Jids : \A id \in TaskIds :
          isPending(resolveKey(j), id) => enqueueTask(Q, j, id) = Q

\* task t1 is pending for workspace wa, queued by chat a1, and the call of
\* enqueueTask by chat a2 of the same workspace that came last started
\* nothing and queued nothing: it brought t1 again
C37_Witness ==
    /\ ~shuttingDown
    /\ last.op = "enqueueTask"
    /\ last.arg = "a2"
    /\ last.started = <<>>
    /\ groups[resolveKey("a2")].pendingTasks = <<[id |-> "t1", groupJid |-> "a1"]>>

(***************************************************************************)
(* Follow-up input and the idle report                                     *)
(***************************************************************************)

\* C38: an accepted sendMessage leaves the tenant not idle; the idle mark is
\* set by notifyIdle for the tenant and by nothing else; and enqueueTask
\* writes the close sentinel for a tenant only if the tenant is marked idle.
\* So between an accepted sendMessage and the next notifyIdle of the tenant no
\* enqueueTask writes the sentinel.
C38_NoCloseAfterFollowUpInput ==
    [][\A k \in Keys :
          /\ (last'.op = "sendMessage" /\ last'.ret = "true" /\ resolveKey(last'.arg) = k)
                => ~groups'[k].idleWaiting
          /\ (~groups[k].idleWaiting /\ groups'[k].idleWaiting)
                => last'.op = "notifyIdle" /\ resolveKey(last'.arg) = k
          /\ (last'.op = "enqueueTask" /\ Includes(last'.closed, k))
                => /\ groups[k].idleWaiting
                   /\ resolveKey(last'.arg) = k
                   /\ groups[k].active]_vars

\* the sandbox of workspace wa reported idle and was then handed a message;
\* the task enqueued next is queued behind the run and no sentinel is written
C38_Witness ==
    /\ last.op = "enqueueTask"
    /\ resolveKey(last.arg) = "wa"
    /\ last.closed = <<>>
    /\ groups["wa"].active
    /\ groups["wa"].workspace = "wa"
    /\ ~groups["wa"].isTaskContainer
    /\ ~groups["wa"].idleWaiting
    /\ Len(groups["wa"].pendingTasks) = 1
    /\ inputDir["wa"].files # {}
    /\ ~inputDir["wa"].close

(***************************************************************************)
(* The processed-message cursor and what the sandbox was given             *)
(***************************************************************************)

\* the step moves the cursor of chat j from before message t to t or beyond
advancedPast(j, t) ==
    /\ storedMessages[t].chat_jid = j
    /\ lastAgentTimestamp[j] < t
    /\ t <= lastAgentTimestamp'[j]

\* C39: whenever a step advances a chat's cursor past a message, the message
\* is in the prompt of a message run that this step starts for the chat, or in
\* a follow-up input that the chat's running sandbox took in this step, or the
\* step is the startup recovery and the message is one it skipped as stale.
C39_CursorPassesOnlyHandedMessages ==
    [][\A j \in RunChats : \A t \in 1..Len(storedMessages) :
          advancedPast(j, t) =>
             /\ t \in Range(handed'[j].messages)
             /\ \/ /\ handed'[j].how = "prompt"
                   /\ agentRuns[j].pc = "idle"
                   /\ agentRuns'[j].pc = "running"
                \/ /\ handed'[j].how = "piped"
                   /\ agentRuns[j].pc = "running"
                   /\ agentRuns'[j] = agentRuns[j]
                \/ /\ handed'[j].how = "stale"
                   /\ last'.op = "recoverPendingMessages"]_vars

\* a1's run was given message 1 as its prompt and has now taken message 2 as
\* follow-up input; the cursor stands at 2
C39_Witness ==
    /\ Len(storedMessages) = 2
    /\ \A t \in 1..2 : storedMessages[t].chat_jid = "a1"
    /\ agentRuns["a1"].pc = "running"
    /\ agentRuns["a1"].cursorAtStart = 0
    /\ handed["a1"] = Handed("piped", <<2>>)
    /\ lastAgentTimestamp["a1"] = 2

\* the startup recovery skipped b1's first message as stale and enqueued a
\* check for the second
StaleSkippedAtRecovery ==
    /\ last.op = "recoverPendingMessages"
    /\ handed["b1"] = Handed("stale", <<1>>)
    /\ lastAgentTimestamp["b1"] = 1
    /\ Len(last.started) = 1
    /\ Len(storedMessages) = 2 /\ storedMessages[2].chat_jid = "b1"

(***************************************************************************)
(* The poll loop of the IPC watcher                                        *)
(***************************************************************************)

\* a pass begins: the list of workspaces to visit is taken anew
passBegins == Len(poll'.workspaces) > Len(poll.workspaces)

\* the timer of the next pass is set
timerSet == poll.phase # "timer" /\ poll'.phase = "timer"

\* C40: however often startIpcWatcher is called, one chain of poll passes
\* has been started once the watcher runs and none before; a call on a running
\* watcher leaves the pass underway as it is; a pass begins only from the
\* timer of the pass before it (or from the first call); and the timer is set
\* only by a pass that is through its last workspace with no listed file left.
C40_OnePollLoopNoOverlap ==
    /\ [](pollLoops = IF ipcWatcherRunning THEN 1 ELSE 0)
    /\ [][/\ (startCalls' > startCalls /\ ipcWatcherRunning)
                => poll' = poll /\ pollLoops' = pollLoops
          /\ passBegins => poll.phase \in {"off", "timer"}
          /\ timerSet => /\ poll.phase = "tasks"
                         /\ poll.files = <<>>
                         /\ Len(poll.workspaces) = 1]_vars

\* startIpcWatcher has been called twice, one loop runs, and its pass stands
\* in the middle of the task files it listed
C40_Witness ==
    /\ startCalls >= 2
    /\ ipcWatcherRunning
    /\ pollLoops = 1
    /\ poll.phase = "tasks"
    /\ Len(poll.workspaces) = 1
    /\ poll.files # <<>>

(***************************************************************************)
(* POST /api/message and the response bridge                               *)
(***************************************************************************)

\* the request's timer fires in this step and its wait ends as a timeout
timesOut(r) ==
    /\ apiRequests[r].promise = "pending"
    /\ apiRequests'[r].promise = "rejected"

\* the scheduler's runs, flags, lists, timers and input directories
schedulerState == <<groups, activeCount, waitingGroups, running, timers, inputDir>>

\* C31: a request that passed the checks of the handler is never replied to
\* twice; a 200 carries the first response emitted for the chat since the
\* request began to wait, and a 504 is sent only if none was emitted; the step
\* in which a request times out takes its listener off the emitter and leaves
\* the scheduler as it is; and every such request is replied to in the end.
C31_OneReplyPerRequest ==
    /\ [](\A r \in ApiRequests :
             /\ Len(apiReplies[r]) <= 1
             /\ apiRequests[r].pc = "replied" <=> Len(apiReplies[r]) = 1
             /\ \A i \in 1..Len(apiReplies[r]) :
                   /\ apiReplies[r][i].status = 200
                         => heard[r] # <<>> /\ apiReplies[r][i].body = heard[r][1]
                   /\ apiReplies[r][i].status = 504 => heard[r] = <<>>
             /\ apiRequests[r].pc = "awaiting" => heard[r] = <<>>)
    /\ [][\A r \in ApiRequests :
             timesOut(r) =>
                /\ ~Includes(responseListeners', r)
                /\ apiReplies'[r] = <<Reply(504, "Response timeout")>>
                /\ UNCHANGED schedulerState]_vars
    /\ \A r \in ApiRequests :
          (apiRequests[r].pc = "awaiting") ~> (Len(apiReplies[r]) = 1)

\* r1 timed out and was answered 504 while the run its message started is
\* still in flight; r2, piped into that run, was answered with the response
\* emitted afterwards
C31_Witness ==
    /\ apiReplies["r1"] = <<Reply(504, "Response timeout")>>
    /\ apiReplies["r2"] = <<Reply(200, "x")>>
    /\ heard["r2"] = <<"x">>
    /\ responseListeners = <<>>
    /\ RunsOf(running, "wa") = 1
    /\ groups["wa"].active
    /\ inputDir["wa"].files # {}

\* both requests waited when the response was emitted, and both were answered
\* with it
OneResponseAnswersBoth ==
    /\ apiReplies["r1"] = <<Reply(200, "y")>>
    /\ apiReplies["r2"] = <<Reply(200, "y")>>
    /\ emitted = 1

====
